---- MODULE Spec2Model ----
(***************************************************************************)
(* Model of the run resolution engine of tekton-results-mcp-server:        *)
(* internal/tektonresults/service.go (getRun, queryRecords, listRuns),     *)
(* filters.go and the record helpers of client.go.                         *)
(*                                                                         *)
(* Strings are sequences of tokens (one-character strings, or a whole      *)
(* literal of the source as a single token), so that prefix tests,         *)
(* substring tests, trimming and splitting are computed, not assumed.      *)
(* The empty string and a nil error are both the empty sequence.           *)
(***************************************************************************)
EXTENDS Integers, Sequences, FiniteSets, TLC

VARIABLES
    kind,        \* resourceKind argument of getRun / listRuns
    sel,         \* RunSelector (getRun) or ListOptions (listRuns)
    store,       \* records held by the remote store, in create_time desc order
    storeCap,    \* largest page the store serves in one listRecords response
    cancelAt,    \* -1, or the number of remote calls issued when ctx was cancelled
    pc,          \* position of the call: start, direct, scan, list, done
    req,         \* listRecordsRequest of the page loop
    matches,     \* queryRecords: var matches []RunDetail
    summaries,   \* listRuns: var summaries []RunSummary
    calls,       \* remote calls issued on resultsClient so far, in order
    direct,      \* getRun: <<>>, or <<what the direct getRecord returned>>
    work,        \* names of the records whose payload GetValue decoded, one
                 \* entry per decode that was not served from valueDecoded
    result       \* what the call returned: detail / summaries / err

vars == <<kind, sel, store, storeCap, cancelAt, pc, req, matches, summaries, calls,
          direct, work, result>>

----------------------------------------------------------------------------
(* Bounds of the model *)

\* largest number of records the store holds in the getRun specification
MaxStore == 3
\* largest number of records the store holds in the listRuns specification
MaxListStore == 5
\* largest page the store serves in the getRun specification
MaxStoreCap == 3
\* largest page the store serves in the listRuns specification
MaxListCap == 3
\* largest number of records the store holds in the liveness specification
MaxLiveStore == 3
\* longest label selector string of the parseLabelSelector specification
MaxSelectorLen == 7
\* most GetValue calls made on one record in the GetValue specification
MaxGets == 3
\* longest condition list of a run in the summarizeRun specification
MaxConds == 3

\* more remote calls than a call needs on any store of the model (one
\* getRecord and one listRecords per stored record); the page loops stop
\* issuing requests there, which keeps the log of calls finite
MaxCalls == MaxStore + MaxListStore + 2

----------------------------------------------------------------------------
(* Program constants *)

defaultListLimit == 50
maxPageSize == 200
describePageSize == 50

resourceKindPipelineRun == "pipelinerun"
resourceKindTaskRun == "taskrun"

resourceTypeFilters ==
    [k \in {resourceKindPipelineRun, resourceKindTaskRun} |->
        IF k = resourceKindPipelineRun
        THEN <<"tekton.dev/v1.PipelineRun", "tekton.dev/v1beta1.PipelineRun">>
        ELSE <<"tekton.dev/v1.TaskRun", "tekton.dev/v1beta1.TaskRun">>]

----------------------------------------------------------------------------
(* Strings *)

NoErr == <<>>
EmptyStr == <<>>
DefaultNs == <<"d", "e", "f", "a", "u", "l", "t">>

Min(a, b) == IF a < b THEN a ELSE b

\* strings.HasPrefix
HasPrefix(s, p) == Len(p) <= Len(s) /\ SubSeq(s, 1, Len(p)) = p

\* strings.Contains
Contains(s, sub) ==
    \E i \in 0..(Len(s) - Len(sub)) : SubSeq(s, i + 1, i + Len(sub)) = sub

\* strings.TrimSpace
RECURSIVE TrimLeft(_)
TrimLeft(s) == IF s # <<>> /\ Head(s) = " " THEN TrimLeft(Tail(s)) ELSE s

RECURSIVE TrimRight(_)
TrimRight(s) ==
    IF s # <<>> /\ s[Len(s)] = " " THEN TrimRight(SubSeq(s, 1, Len(s) - 1)) ELSE s

TrimSpace(s) == TrimRight(TrimLeft(s))

\* strings.ToLower, on the letters the model's namespaces use
LowerOf(c) ==
    CASE c = "A" -> "a"
      [] c = "L" -> "l"
      [] c = "F" -> "f"
      [] OTHER -> c

ToLower(s) == [i \in 1..Len(s) |-> LowerOf(s[i])]

\* strings.Split(s, sep) for a one-token separator
RECURSIVE Split(_, _)
Split(s, sep) ==
    IF \A i \in 1..Len(s) : s[i] # sep
    THEN <<s>>
    ELSE LET i == CHOOSE k \in 1..Len(s) :
                      s[k] = sep /\ \A j \in 1..(k - 1) : s[j] # sep
         IN <<SubSeq(s, 1, i - 1)>> \o Split(SubSeq(s, i + 1, Len(s)), sep)

\* strings.SplitN(s, sep, 2)
SplitN2(s, sep) ==
    IF \A i \in 1..Len(s) : s[i] # sep
    THEN <<s>>
    ELSE LET i == CHOOSE k \in 1..Len(s) :
                      s[k] = sep /\ \A j \in 1..(k - 1) : s[j] # sep
         IN <<SubSeq(s, 1, i - 1), SubSeq(s, i + 1, Len(s))>>

\* strings.Join(list, sep)
RECURSIVE Join(_, _)
Join(list, sep) ==
    IF list = <<>> THEN <<>>
    ELSE IF Len(list) = 1 THEN Head(list)
    ELSE Head(list) \o sep \o Join(Tail(list), sep)

----------------------------------------------------------------------------
(* filters.go *)

EmptyMap == <<>>

\* MapSet that keeps the value a key already has
MapSetKeepFirst(m, k, v) ==
    IF k \in DOMAIN m THEN m
    ELSE [x \in (DOMAIN m) \cup {k} |-> IF x = k THEN v ELSE m[x]]

MapSet(m, k, v) == [x \in (DOMAIN m) \cup {k} |-> IF x = k THEN v ELSE m[x]]

\* a Go map lookup: the zero value for a missing key
MapGet(m, k) == IF k \in DOMAIN m THEN m[k] ELSE EmptyStr

RECURSIVE parsePairs(_, _)
parsePairs(pairs, acc) ==
    IF pairs = <<>> THEN [labels |-> acc, err |-> NoErr]
    ELSE LET pair == TrimSpace(Head(pairs)) IN
         IF pair = <<>> THEN parsePairs(Tail(pairs), acc)
         ELSE LET parts == SplitN2(pair, "=") IN
              IF Len(parts) # 2
              THEN [labels |-> EmptyMap,
                    err |-> <<"invalid label selector ">> \o pair
                            \o <<": expected key=value pairs">>]
              ELSE LET key == TrimSpace(parts[1])
                       value == TrimSpace(parts[2])
                   IN IF key = <<>> \/ value = <<>>
                      THEN [labels |-> EmptyMap,
                            err |-> <<"invalid label selector ">> \o pair
                                    \o <<": empty key or value">>]
                      ELSE parsePairs(Tail(pairs), MapSet(acc, key, value))

parseLabelSelector(selector) ==
    IF TrimSpace(selector) = <<>>
    THEN [labels |-> EmptyMap, err |-> NoErr]
    ELSE parsePairs(Split(selector, ","), EmptyMap)

matchesLabels(actual, expected) ==
    \A key \in DOMAIN expected : MapGet(actual, key) = expected[key]

\* escapeCELString doubles backslashes and escapes quotes
escapeCELString(in) ==
    LET esc(c) == CASE c = "\\" -> <<"\\", "\\">>
                    [] c = "\"" -> <<"\\", "\"">>
                    [] OTHER -> <<c>>
        F[i \in 0..Len(in)] == IF i = 0 THEN <<>> ELSE F[i - 1] \o esc(in[i])
    IN F[Len(in)]

\* The labels of a map in a fixed order (Go iterates a map in no fixed order;
\* the clauses are joined by &&, whose order does not change the meaning).
RECURSIVE KeysInOrder(_)
KeysInOrder(ks) ==
    IF ks = {} THEN <<>>
    ELSE LET k == CHOOSE x \in ks : TRUE IN <<k>> \o KeysInOrder(ks \ {k})

\* The filter expression as the list of its && parts; each part is a clause
\* [field, key, values]: the type clause is an || over the kind's data types.
buildFilterExpression(k, labels, exactName, uid) ==
    LET typePart ==
            IF k \in DOMAIN resourceTypeFilters /\ Len(resourceTypeFilters[k]) > 0
            THEN << [field |-> "data_type", key |-> EmptyStr,
                     values |-> {<<t>> : t \in {resourceTypeFilters[k][i] :
                                        i \in 1..Len(resourceTypeFilters[k])}}] >>
            ELSE <<>>
        keys == KeysInOrder(DOMAIN labels)
        labelParts ==
            [i \in 1..Len(keys) |->
                [field |-> "data.metadata.labels", key |-> escapeCELString(keys[i]),
                 values |-> {escapeCELString(labels[keys[i]])}]]
        namePart ==
            IF exactName # EmptyStr
            THEN << [field |-> "data.metadata.name", key |-> EmptyStr,
                     values |-> {escapeCELString(exactName)}] >>
            ELSE <<>>
    IN typePart \o labelParts \o namePart

parentForNamespace(namespace) ==
    LET ns == TrimSpace(namespace) IN
    IF ToLower(ns) \in {EmptyStr, <<"-">>, <<"a", "l", "l">>, <<"*">>}
    THEN <<"-", "/results/-">>
    ELSE ns \o <<"/results/-">>

----------------------------------------------------------------------------
(* client.go: record and record.GetValue *)

\* A byte string holding JSON (or nothing), by its form:
\*   object  a JSON object, doc = <<the Tekton resource it holds>>
\*   array   a JSON array
\*   string  a JSON string; inner = <<the bytes its base64 text decodes to>>,
\*           or <<>> when the text is not valid base64
\*   empty   no bytes at all
ObjectBytes(run) == [form |-> "object", doc |-> <<run>>, inner |-> <<>>]
ArrayBytes == [form |-> "array", doc |-> <<>>, inner |-> <<>>]
EmptyBytes == [form |-> "empty", doc |-> <<>>, inner |-> <<>>]
Base64String(bytes) == [form |-> "string", doc |-> <<>>, inner |-> <<bytes>>]
BadBase64String == [form |-> "string", doc |-> <<>>, inner |-> <<>>]

\* GetValue whose cached branch hands back the undecoded Value
GetValueCacheRaw(rec) ==
    IF rec.Data.valueDecoded # <<>>
    THEN [value |-> rec.Data.Value, err |-> NoErr,
          valueDecoded |-> rec.Data.valueDecoded, work |-> <<>>]
    ELSE LET raw == rec.Data.Value IN
         IF raw.form \in {"object", "array"}
         THEN [value |-> raw, err |-> NoErr, valueDecoded |-> <<raw>>,
               work |-> <<rec.Name>>]
         ELSE IF raw.form = "string" /\ raw.inner = <<>>
         THEN [value |-> EmptyBytes, err |-> <<"decode base64">>,
               valueDecoded |-> <<>>, work |-> <<rec.Name>>]
         ELSE IF raw.form = "string"
         THEN [value |-> raw.inner[1], err |-> NoErr, valueDecoded |-> raw.inner,
               work |-> <<rec.Name>>]
         ELSE [value |-> EmptyBytes, err |-> NoErr, valueDecoded |-> <<EmptyBytes>>,
               work |-> <<rec.Name>>]

\* record.GetValue: the decoded value, the error, the cache field
\* valueDecoded as the call leaves it on its receiver, and work: <<>> when
\* the value came from the cache, <<rec.Name>> when the JSON/base64 decode ran.
GetValue(rec) ==
    IF rec.Data.valueDecoded # <<>>
    THEN [value |-> rec.Data.valueDecoded[1], err |-> NoErr,
          valueDecoded |-> rec.Data.valueDecoded, work |-> <<>>]
    ELSE LET raw == rec.Data.Value IN
         IF raw.form \in {"object", "array"}
         THEN [value |-> raw, err |-> NoErr, valueDecoded |-> <<raw>>,
               work |-> <<rec.Name>>]
         ELSE IF raw.form = "string" /\ raw.inner = <<>>
         THEN [value |-> EmptyBytes, err |-> <<"decode base64">>,
               valueDecoded |-> <<>>, work |-> <<rec.Name>>]
         ELSE IF raw.form = "string"
         THEN [value |-> raw.inner[1], err |-> NoErr, valueDecoded |-> raw.inner,
               work |-> <<rec.Name>>]
         ELSE \* no bytes: not JSON, taken as raw base64, decodes to nothing
              [value |-> EmptyBytes, err |-> NoErr, valueDecoded |-> <<EmptyBytes>>,
               work |-> <<rec.Name>>]

----------------------------------------------------------------------------
(* service.go: decodeRun, summarizeRun, conditionStatus, chooseString *)

NoRun ==
    [metadata |-> [name |-> EmptyStr, namespace |-> EmptyStr, uid |-> EmptyStr,
                   labels |-> EmptyMap],
     status |-> [startTime |-> 0, completionTime |-> 0, conditions |-> <<>>]]

\* decodeRun that yields a zero run for a record it cannot decode
decodeRunZeroOnFailure(rec) ==
    LET gv == GetValue(rec) IN
    IF gv.err # NoErr \/ gv.value.form # "object"
    THEN [run |-> NoRun, err |-> NoErr, work |-> gv.work]
    ELSE [run |-> gv.value.doc[1], err |-> NoErr, work |-> gv.work]

\* decodeRun without the check for an empty value
decodeRunNoEmptyCheck(rec) ==
    LET gv == GetValue(rec) IN
    IF gv.err # NoErr
    THEN [run |-> NoRun,
          err |-> <<"get value for record ">> \o rec.Name \o <<": ">> \o gv.err,
          work |-> gv.work]
    ELSE IF gv.value.form # "object"
    THEN [run |-> NoRun,
          err |-> <<"decode Tekton resource in record ">> \o rec.Name,
          work |-> gv.work]
    ELSE [run |-> gv.value.doc[1], err |-> NoErr, work |-> gv.work]

\* decodeRun takes its record by value: the valueDecoded its GetValue call
\* sets is set on that copy and is gone when decodeRun returns.
decodeRun(rec) ==
    LET gv == GetValue(rec) IN
    IF gv.err # NoErr
    THEN [run |-> NoRun,
          err |-> <<"get value for record ">> \o rec.Name \o <<": ">> \o gv.err,
          work |-> gv.work]
    ELSE IF gv.value.form = "empty"
    THEN [run |-> NoRun,
          err |-> <<"record ">> \o rec.Name \o <<" has no embedded Tekton data">>,
          work |-> gv.work]
    ELSE IF gv.value.form # "object"
    THEN [run |-> NoRun,
          err |-> <<"decode Tekton resource in record ">> \o rec.Name,
          work |-> gv.work]
    ELSE [run |-> gv.value.doc[1], err |-> NoErr, work |-> gv.work]

\* chooseString without the fallback
chooseStringPrimaryOnly(primary, fallback) == primary

chooseString(primary, fallback) == IF primary # EmptyStr THEN primary ELSE fallback

\* conditionStatus that reports the last "Succeeded" condition
conditionStatusLast(conditions) ==
    IF \E i \in 1..Len(conditions) : conditions[i].type = "Succeeded"
    THEN LET i == CHOOSE k \in 1..Len(conditions) :
                      /\ conditions[k].type = "Succeeded"
                      /\ \A j \in (k + 1)..Len(conditions) : conditions[j].type # "Succeeded"
         IN <<conditions[i].status, conditions[i].reason>>
    ELSE <<"", "">>

conditionStatus(conditions) ==
    IF \E i \in 1..Len(conditions) : conditions[i].type = "Succeeded"
    THEN LET i == CHOOSE k \in 1..Len(conditions) :
                      /\ conditions[k].type = "Succeeded"
                      /\ \A j \in 1..(k - 1) : conditions[j].type # "Succeeded"
         IN <<conditions[i].status, conditions[i].reason>>
    ELSE <<"", "">>

summarizeRun(run, rec) ==
    [Name |-> run.metadata.name,
     Namespace |-> run.metadata.namespace,
     UID |-> chooseString(run.metadata.uid, rec.Uid),
     Labels |-> run.metadata.labels,
     StartTime |-> run.status.startTime,
     CompletionTime |-> run.status.completionTime,
     Status |-> conditionStatus(run.status.conditions)[1],
     Reason |-> conditionStatus(run.status.conditions)[2],
     RecordName |-> rec.Name]

\* RunDetail{Summary, Raw, RecordName}
RunDetail(run, rec, raw) ==
    [Summary |-> summarizeRun(run, rec), Raw |-> raw, RecordName |-> rec.Name]

----------------------------------------------------------------------------
(* The remote store behind resultsClient *)

TaskRunType == "tekton.dev/v1.TaskRun"
PipelineRunType == "tekton.dev/v1.PipelineRun"

Run(name, ns, uid, labels, completion, conditions) ==
    [metadata |-> [name |-> name, namespace |-> ns, uid |-> uid, labels |-> labels],
     status |-> [startTime |-> 1, completionTime |-> completion,
                 conditions |-> conditions]]

\* A stored record: its place (namespace, result and record id), its data
\* type and its payload.
Entry(ns, res, id, type, value) ==
    [ns |-> ns, result |-> res, id |-> id, dataType |-> type, value |-> value]

NsF == <<"f">>
KV == [k \in {<<"k">>} |-> <<"v">>]
Succeeded == << [type |-> "Succeeded", status |-> "True", reason |-> "Succeeded"] >>

\* The records the model's stores are made of, newest first.
UniverseGet ==
    << \* a standalone TaskRun, stored under its own result
       Entry(NsF, <<"u1">>, <<"u1">>, TaskRunType,
             ObjectBytes(Run(<<"a">>, NsF, <<"u1">>, EmptyMap, 2, Succeeded))),
       \* a record whose payload is empty
       Entry(NsF, <<"p1">>, <<"u4">>, TaskRunType, EmptyBytes),
       \* a TaskRun of a PipelineRun, stored under the PipelineRun's result
       Entry(NsF, <<"p1">>, <<"u2">>, TaskRunType,
             ObjectBytes(Run(<<"b">>, NsF, <<"u2">>, KV, 3, Succeeded))),
       \* a TaskRun sent base64-encoded, whose payload carries no uid
       Entry(NsF, <<"p1">>, <<"u3">>, TaskRunType,
             Base64String(ObjectBytes(Run(<<"a", "b">>, NsF, EmptyStr, EmptyMap, 0, <<>>)))),
       \* the PipelineRun
       Entry(NsF, <<"p1">>, <<"p1">>, PipelineRunType,
             ObjectBytes(Run(<<"a">>, NsF, <<"p1">>, KV, 4, Succeeded))),
       \* a second PipelineRun of the same name
       Entry(NsF, <<"p2">>, <<"p2">>, PipelineRunType,
             ObjectBytes(Run(<<"a">>, NsF, <<"p2">>, EmptyMap, 0, <<>>))),
       \* a standalone TaskRun in the default namespace
       Entry(DefaultNs, <<"u5">>, <<"u5">>, TaskRunType,
             ObjectBytes(Run(<<"a">>, DefaultNs, <<"u5">>, EmptyMap, 5, Succeeded))),
       \* a record whose payload is a string that is not base64
       Entry(NsF, <<"p1">>, <<"u6">>, TaskRunType, BadBase64String) >>

\* the subsequence of seq at the positions in idx
RECURSIVE Pick(_, _, _)
Pick(seq, idx, i) ==
    IF i > Len(seq) THEN <<>>
    ELSE (IF i \in idx THEN <<seq[i]>> ELSE <<>>) \o Pick(seq, idx, i + 1)

StoresGet ==
    { Pick(UniverseGet, idx, 1) :
        idx \in { x \in SUBSET (1..Len(UniverseGet)) : Cardinality(x) <= MaxStore } }

\* the record as the API returns it
Record(e) ==
    [Name |-> e.ns \o <<"/results/">> \o e.result \o <<"/records/">> \o e.id,
     Uid |-> e.id,
     Data |-> [Value |-> e.value, valueDecoded |-> <<>>]]

\* the Tekton resource the store sees in a record's data (for its filter)
StoreDoc(e) ==
    IF e.value.form = "object" THEN e.value.doc
    ELSE IF e.value.form = "string" /\ e.value.inner # <<>>
            /\ e.value.inner[1].form = "object"
    THEN e.value.inner[1].doc
    ELSE <<>>

ClauseHolds(e, c) ==
    CASE c.field = "data_type" -> escapeCELString(<<e.dataType>>) \in c.values
      [] c.field = "data.metadata.labels" ->
            /\ StoreDoc(e) # <<>>
            /\ \E key \in DOMAIN StoreDoc(e)[1].metadata.labels :
                  /\ escapeCELString(key) = c.key
                  /\ escapeCELString(StoreDoc(e)[1].metadata.labels[key]) \in c.values
      [] c.field = "data.metadata.name" ->
            /\ StoreDoc(e) # <<>>
            /\ escapeCELString(StoreDoc(e)[1].metadata.name) \in c.values
      [] OTHER -> FALSE

InParent(e, parent) ==
    LET ns == SubSeq(parent, 1, Len(parent) - 1) IN ns = <<"-">> \/ ns = e.ns

\* what the store lists for a request, over all pages
Listing(st, r) ==
    SelectSeq(st, LAMBDA e : /\ InParent(e, r.Parent)
                             /\ \A i \in 1..Len(r.Filter) : ClauseHolds(e, r.Filter[i]))

\* Error texts of the transport (restClient.do): the digits after "code": are
\* single characters.
NotFoundErr ==
    <<"results API GET: {", "\"code\":", "5", ",", "\"message\":\"record not found\"}">>
UnauthenticatedErr ==
    <<"results API GET: {", "\"code\":", "1", "6", ",", "\"message\":\"unauthenticated\"}">>
UnavailableErr ==
    <<"results API GET: {\"kind\":\"Status\",\"reason\":\"ServiceUnavailable\",",
      "\"code\":", "5", "0", "3", "}">>
NetworkErr == <<"perform GET request: connection refused">>
CancelledErr == <<"perform GET request: context canceled">>

TransportErrors == {UnauthenticatedErr, UnavailableErr, NetworkErr}

\* outcomes of resultsClient.getRecord(ctx, recordName)
GetRecordOutcomes(recordName) ==
    IF cancelAt # -1
    THEN { [rec |-> <<>>, err |-> CancelledErr] }
    ELSE { [rec |-> <<>>, err |-> e] : e \in TransportErrors }
         \cup ( IF \E i \in 1..Len(store) : Record(store[i]).Name = recordName
                THEN { [rec |-> <<Record(store[i])>>, err |-> NoErr] :
                          i \in { j \in 1..Len(store) : Record(store[j]).Name = recordName } }
                ELSE { [rec |-> <<>>, err |-> NotFoundErr] } )

\* one page: the store serves at most storeCap records, and at most
\* PageSize when the request carries one (page_size is sent only if > 0)
PageOf(r) ==
    LET all == Listing(store, r)
        size == IF r.PageSize > 0 THEN Min(r.PageSize, storeCap) ELSE storeCap
        last == Min(r.PageToken + size, Len(all))
    IN [Records |-> [i \in 1..(last - r.PageToken) |-> Record(all[r.PageToken + i])],
        NextPageToken |-> IF last < Len(all) THEN last ELSE 0,
        err |-> NoErr]

\* outcomes of resultsClient.listRecords(ctx, req)
ListRecordsOutcomes(r) ==
    IF cancelAt # -1
    THEN { [Records |-> <<>>, NextPageToken |-> 0, err |-> CancelledErr] }
    ELSE { PageOf(r), [Records |-> <<>>, NextPageToken |-> 0, err |-> UnavailableErr] }

----------------------------------------------------------------------------
(* service.go: getRun and queryRecords *)

NoReq ==
    [Parent |-> EmptyStr, Filter |-> <<>>, OrderBy |-> "", PageSize |-> 0,
     PageToken |-> 0, Fields |-> ""]

NoResult == [detail |-> <<>>, summaries |-> <<>>, err |-> NoErr]

GetRecordCall(name) == [op |-> "getRecord", name |-> name, req |-> NoReq]
ListRecordsCall(r) == [op |-> "listRecords", name |-> EmptyStr, req |-> r]

\* DirectRecordName without the default namespace
DirectRecordNameNoDefault(selector) ==
    selector.Namespace \o <<"/results/">> \o selector.UID \o <<"/records/">> \o selector.UID

\* fmt.Sprintf("%s/results/%s/records/%s", ns, selector.UID, selector.UID)
DirectRecordName(selector) ==
    LET ns == IF selector.Namespace = EmptyStr THEN DefaultNs ELSE selector.Namespace
    IN ns \o <<"/results/">> \o selector.UID \o <<"/records/">> \o selector.UID

\* DirectFound with the detail's RecordName left unset
DirectFoundNoName(rec) ==
    LET d == decodeRun(rec)
        gv == GetValue(rec)
    IN IF d.err # NoErr
       THEN [detail |-> <<>>, summaries |-> <<>>,
             err |-> <<"decode run from direct get: ">> \o d.err]
       ELSE IF gv.err # NoErr
       THEN [detail |-> <<>>, summaries |-> <<>>,
             err |-> <<"get value for detail from direct get: ">> \o gv.err]
       ELSE [detail |-> << [RunDetail(d.run, rec, gv.value) EXCEPT !.RecordName = EmptyStr] >>,
             summaries |-> <<>>, err |-> NoErr]

\* getRun, the record was found directly: decode and return
DirectFound(rec) ==
    LET d == decodeRun(rec)
        gv == GetValue(rec)
    IN IF d.err # NoErr
       THEN [detail |-> <<>>, summaries |-> <<>>,
             err |-> <<"decode run from direct get: ">> \o d.err]
       ELSE IF gv.err # NoErr
       THEN [detail |-> <<>>, summaries |-> <<>>,
             err |-> <<"get value for detail from direct get: ">> \o gv.err]
       ELSE [detail |-> <<RunDetail(d.run, rec, gv.value)>>, summaries |-> <<>>,
             err |-> NoErr]

\* getRun, the record was found directly: the decodes of decodeRun(*rec) and
\* of rec.GetValue()
DirectWork(rec) ==
    LET d == decodeRun(rec)
        gv == GetValue(rec)
    IN IF d.err # NoErr THEN d.work ELSE d.work \o gv.work

\* FallsBack that treats a TaskRun like a PipelineRun: never falls back
FallsBackNever(k, err) == FALSE

\* FallsBack that recovers from every failure of the direct lookup
FallsBackAnyError(k, err) == k = resourceKindTaskRun

\* getRun, the direct getRecord failed: fall back to the scan?
FallsBack(k, err) ==
    k = resourceKindTaskRun /\ Contains(err, <<"\"code\":", "5">>)

\* ScanRequest that hands the UID to the store as a filter clause
ScanRequestWithUID(k, labelFilters, selector) ==
    [Parent |-> parentForNamespace(selector.Namespace),
     Filter |-> buildFilterExpression(k, labelFilters, selector.Name, EmptyStr)
                \o (IF selector.UID # EmptyStr
                    THEN << [field |-> "uid", key |-> EmptyStr, values |-> {selector.UID}] >>
                    ELSE <<>>),
     OrderBy |-> "create_time desc",
     PageSize |-> describePageSize,
     PageToken |-> 0,
     Fields |-> "records.name,records.uid,records.data.value"]

\* getRun, the request of the standard query path
ScanRequest(k, labelFilters, selector) ==
    [Parent |-> parentForNamespace(selector.Namespace),
     Filter |-> buildFilterExpression(k, labelFilters, selector.Name, EmptyStr),
     OrderBy |-> "create_time desc",
     PageSize |-> describePageSize,
     PageToken |-> 0,
     Fields |-> "records.name,records.uid,records.data.value"]

\* Selected without the check of the name prefix
SelectedIgnoringPrefix(run, rec, selector, labelFilters) ==
    /\ selector.UID # EmptyStr => chooseString(run.metadata.uid, rec.Uid) = selector.UID
    /\ matchesLabels(run.metadata.labels, labelFilters)
    /\ selector.Name # EmptyStr => run.metadata.name = selector.Name

\* queryRecords, the in-memory filters on one decoded record
Selected(run, rec, selector, labelFilters) ==
    /\ selector.UID # EmptyStr => chooseString(run.metadata.uid, rec.Uid) = selector.UID
    /\ matchesLabels(run.metadata.labels, labelFilters)
    /\ selector.Prefix # EmptyStr => HasPrefix(run.metadata.name, selector.Prefix)
    /\ selector.Name # EmptyStr => run.metadata.name = selector.Name

\* ScanRecords that goes through the whole page whatever it has matched
RECURSIVE ScanRecordsNoBreak(_, _, _, _)
ScanRecordsNoBreak(recs, m, selector, labelFilters) ==
    IF recs = <<>> THEN [matches |-> m, err |-> NoErr, work |-> <<>>]
    ELSE LET rec == Head(recs)
             d == decodeRun(rec)
             gv == GetValue(rec)
         IN IF d.err # NoErr THEN [matches |-> m, err |-> d.err, work |-> d.work]
            ELSE IF ~Selected(d.run, rec, selector, labelFilters)
            THEN [ScanRecordsNoBreak(Tail(recs), m, selector, labelFilters)
                     EXCEPT !.work = d.work \o @]
            ELSE IF gv.err # NoErr
            THEN [matches |-> m, err |-> <<"get value for detail: ">> \o gv.err,
                  work |-> d.work \o gv.work]
            ELSE [ScanRecordsNoBreak(Tail(recs), Append(m, RunDetail(d.run, rec, gv.value)),
                                     selector, labelFilters)
                     EXCEPT !.work = d.work \o gv.work \o @]

\* queryRecords, the loop over the records of one page
RECURSIVE ScanRecords(_, _, _, _)
ScanRecords(recs, m, selector, labelFilters) ==
    IF recs = <<>> THEN [matches |-> m, err |-> NoErr, work |-> <<>>]
    ELSE LET rec == Head(recs)
             d == decodeRun(rec)
             gv == GetValue(rec)
         IN IF d.err # NoErr THEN [matches |-> m, err |-> d.err, work |-> d.work]
            ELSE IF ~Selected(d.run, rec, selector, labelFilters)
            THEN [ScanRecords(Tail(recs), m, selector, labelFilters)
                     EXCEPT !.work = d.work \o @]
            ELSE IF gv.err # NoErr
            THEN [matches |-> m, err |-> <<"get value for detail: ">> \o gv.err,
                  work |-> d.work \o gv.work]
            ELSE LET m2 == Append(m, RunDetail(d.run, rec, gv.value)) IN
                 IF Len(m2) > 1
                 THEN [matches |-> m2, err |-> NoErr, work |-> d.work \o gv.work]
                 ELSE [ScanRecords(Tail(recs), m2, selector, labelFilters)
                          EXCEPT !.work = d.work \o gv.work \o @]

\* ScanStops without the early stop on a second match
ScanStopsOnlyAtEnd(m, nextPageToken) == nextPageToken = 0

\* ScanStops that never follows the continuation token
ScanStopsAfterFirstPage(m, nextPageToken) == TRUE

\* ScanStops that ignores the continuation token
ScanStopsOnlyOnCap(m, nextPageToken) == Len(m) > 1

\* queryRecords, does the page loop end after this page?
ScanStops(m, nextPageToken) == Len(m) > 1 \/ nextPageToken = 0

NoRunFoundErr == <<"no run found that matches the provided filters">>
AmbiguousHead == <<"multiple run instances match the filters (">>
AmbiguousTail == <<"). Please refine the filters with an exact name or prefix.">>

\* fmt.Sprintf("%s/%s", match.Summary.Namespace, match.Summary.Name)
MatchNames(m) == [i \in 1..Len(m) |-> m[i].Summary.Namespace \o <<"/">> \o m[i].Summary.Name]

\* ResolveMatches that returns no error when nothing matched
ResolveMatchesNilOnEmpty(m, selector) ==
    IF Len(m) = 0
    THEN [detail |-> <<>>, summaries |-> <<>>, err |-> NoErr]
    ELSE IF Len(m) > 1 /\ ~selector.SelectLast
    THEN [detail |-> <<>>, summaries |-> <<>>,
          err |-> AmbiguousHead \o Join(MatchNames(m), <<", ">>) \o AmbiguousTail]
    ELSE [detail |-> <<m[1]>>, summaries |-> <<>>, err |-> NoErr]

\* ResolveMatches that takes SelectLast as "the last of the matches"
ResolveMatchesLast(m, selector) ==
    IF Len(m) = 0
    THEN [detail |-> <<>>, summaries |-> <<>>, err |-> NoRunFoundErr]
    ELSE IF Len(m) > 1 /\ ~selector.SelectLast
    THEN [detail |-> <<>>, summaries |-> <<>>,
          err |-> AmbiguousHead \o Join(MatchNames(m), <<", ">>) \o AmbiguousTail]
    ELSE [detail |-> <<m[Len(m)]>>, summaries |-> <<>>, err |-> NoErr]

\* queryRecords, after the page loop
ResolveMatches(m, selector) ==
    IF Len(m) = 0
    THEN [detail |-> <<>>, summaries |-> <<>>, err |-> NoRunFoundErr]
    ELSE IF Len(m) > 1
    THEN IF selector.SelectLast
         THEN [detail |-> <<m[1]>>, summaries |-> <<>>, err |-> NoErr]
         ELSE [detail |-> <<>>, summaries |-> <<>>,
               err |-> AmbiguousHead \o Join(MatchNames(m), <<", ">>) \o AmbiguousTail]
    ELSE [detail |-> <<m[1]>>, summaries |-> <<>>, err |-> NoErr]

Return(r) ==
    /\ pc' = "done"
    /\ result' = r

\* getRun up to the direct lookup or the start of the scan
GetRunStart ==
    /\ pc = "start"
    /\ LET lf == parseLabelSelector(sel.LabelSelector) IN
       IF lf.err # NoErr
       THEN /\ Return([detail |-> <<>>, summaries |-> <<>>, err |-> lf.err])
            /\ UNCHANGED req
       ELSE IF sel.UID # EmptyStr
       THEN /\ pc' = "direct"
            /\ UNCHANGED <<req, result>>
       ELSE /\ pc' = "scan"
            /\ req' = ScanRequest(kind, lf.labels, sel)
            /\ UNCHANGED result
    /\ UNCHANGED <<kind, sel, store, storeCap, cancelAt, matches, summaries, calls, direct,
                   work>>

\* getRun, the optimized UID lookup: one getRecord and what follows from it
DirectGet ==
    /\ pc = "direct"
    /\ \E out \in GetRecordOutcomes(DirectRecordName(sel)) :
          /\ calls' = Append(calls, GetRecordCall(DirectRecordName(sel)))
          /\ direct' = <<out>>
          /\ IF out.err = NoErr
             THEN /\ Return(DirectFound(out.rec[1]))
                  /\ work' = work \o DirectWork(out.rec[1])
                  /\ UNCHANGED req
             ELSE IF FallsBack(kind, out.err)
             THEN /\ pc' = "scan"
                  /\ req' = ScanRequest(kind, parseLabelSelector(sel.LabelSelector).labels, sel)
                  /\ UNCHANGED <<result, work>>
             ELSE /\ Return([detail |-> <<>>, summaries |-> <<>>,
                             err |-> <<"get record by UID: ">> \o out.err])
                  /\ UNCHANGED <<req, work>>
    /\ UNCHANGED <<kind, sel, store, storeCap, cancelAt, matches, summaries>>

\* queryRecords, one turn of the page loop: listRecords, the records of the
\* page, and the resolution when the loop ends
ScanPage ==
    /\ pc = "scan"
    /\ Len(calls) < MaxCalls
    /\ LET lf == parseLabelSelector(sel.LabelSelector) IN
       IF lf.err # NoErr
       THEN /\ Return([detail |-> <<>>, summaries |-> <<>>, err |-> lf.err])
            /\ UNCHANGED <<req, matches, calls, work>>
       ELSE \E resp \in ListRecordsOutcomes(req) :
          /\ calls' = Append(calls, ListRecordsCall(req))
          /\ IF resp.err # NoErr
             THEN /\ Return([detail |-> <<>>, summaries |-> <<>>, err |-> resp.err])
                  /\ UNCHANGED <<req, matches, work>>
             ELSE \E r \in {ScanRecords(resp.Records, matches, sel, lf.labels)} :
                  /\ work' = work \o r.work
                  /\ IF r.err # NoErr
                     THEN /\ Return([detail |-> <<>>, summaries |-> <<>>, err |-> r.err])
                          /\ UNCHANGED <<req, matches>>
                     ELSE IF ScanStops(r.matches, resp.NextPageToken)
                     THEN /\ matches' = r.matches
                          /\ Return(ResolveMatches(r.matches, sel))
                          /\ UNCHANGED req
                     ELSE /\ matches' = r.matches
                          /\ req' = [req EXCEPT !.PageToken = resp.NextPageToken]
                          /\ UNCHANGED <<pc, result>>
    /\ UNCHANGED <<kind, sel, store, storeCap, cancelAt, summaries, direct>>

\* the caller cancels the context of a call in progress
Cancel ==
    /\ pc # "done"
    /\ cancelAt = -1
    /\ cancelAt' = Len(calls)
    /\ UNCHANGED <<kind, sel, store, storeCap, pc, req, matches, summaries, calls,
                   direct, work, result>>

----------------------------------------------------------------------------
(* The getRun specification *)

Kinds == {resourceKindPipelineRun, resourceKindTaskRun}

LabelSelectors == { EmptyStr, <<"k", "=", "v">>, <<"k">> }

Selectors ==
    [Namespace : {EmptyStr, NsF, <<"-">>},
     LabelSelector : LabelSelectors,
     Prefix : {EmptyStr, <<"a">>},
     Name : {EmptyStr, <<"a">>},
     UID : {EmptyStr, <<"u1">>, <<"u2">>, <<"u5">>, <<"p1">>},
     SelectLast : BOOLEAN]

Init ==
    /\ kind \in Kinds
    /\ sel \in Selectors
    /\ store \in StoresGet
    /\ storeCap \in 1..MaxStoreCap
    /\ cancelAt = -1
    /\ pc = "start"
    /\ req = NoReq
    /\ matches = <<>>
    /\ summaries = <<>>
    /\ calls = <<>>
    /\ direct = <<>>
    /\ work = <<>>
    /\ result = NoResult

Next == GetRunStart \/ DirectGet \/ ScanPage \/ Cancel

Spec == Init /\ [][Next]_vars

----------------------------------------------------------------------------
(* service.go: listRuns *)

\* limit := opts.Limit; if limit <= 0 { limit = defaultListLimit }
EffectiveLimit(opts) == IF opts.Limit <= 0 THEN defaultListLimit ELSE opts.Limit

\* pageSize := int32(limit); if pageSize > maxPageSize { pageSize = maxPageSize }
FirstPageSize(limit) == IF limit > maxPageSize THEN maxPageSize ELSE limit

ListRequest(k, labelFilters, opts) ==
    [Parent |-> parentForNamespace(opts.Namespace),
     Filter |-> buildFilterExpression(k, labelFilters, EmptyStr, EmptyStr),
     OrderBy |-> "create_time desc",
     PageSize |-> FirstPageSize(EffectiveLimit(opts)),
     PageToken |-> 0,
     Fields |-> "records.name,records.uid,records.data.value.metadata,records.data.value.status,next_page_token"]

\* ListSelected without the name prefix filter
ListSelectedNoPrefix(run, opts, labelFilters) ==
    matchesLabels(run.metadata.labels, labelFilters)

\* listRuns, the in-memory filters on one decoded record
ListSelected(run, opts, labelFilters) ==
    /\ matchesLabels(run.metadata.labels, labelFilters)
    /\ opts.Prefix # EmptyStr => HasPrefix(run.metadata.name, opts.Prefix)

\* listRuns, the loop over the records of one page; full: the limit was
\* reached and the summaries were returned from inside the loop
RECURSIVE ListRecords(_, _, _, _, _)
ListRecords(recs, sums, opts, labelFilters, limit) ==
    IF recs = <<>> THEN [summaries |-> sums, err |-> NoErr, full |-> FALSE, work |-> <<>>]
    ELSE LET rec == Head(recs)
             d == decodeRun(rec)
         IN IF d.err # NoErr
            THEN [summaries |-> <<>>, err |-> d.err, full |-> FALSE, work |-> d.work]
            ELSE IF ~ListSelected(d.run, opts, labelFilters)
            THEN [ListRecords(Tail(recs), sums, opts, labelFilters, limit)
                     EXCEPT !.work = d.work \o @]
            ELSE LET s2 == Append(sums, summarizeRun(d.run, rec)) IN
                 IF Len(s2) >= limit
                 THEN [summaries |-> s2, err |-> NoErr, full |-> TRUE, work |-> d.work]
                 ELSE [ListRecords(Tail(recs), s2, opts, labelFilters, limit)
                          EXCEPT !.work = d.work \o @]

\* NextPageSize that keeps the first page size
NextPageSizeNoShrink(remaining, pageSize) == pageSize

\* listRuns, the page size of the next request
NextPageSize(remaining, pageSize) == IF remaining < pageSize THEN remaining ELSE pageSize

\* listRuns up to the page loop
ListRunsStart ==
    /\ pc = "start"
    /\ LET lf == parseLabelSelector(sel.LabelSelector) IN
       IF lf.err # NoErr
       THEN /\ Return([detail |-> <<>>, summaries |-> <<>>, err |-> lf.err])
            /\ UNCHANGED req
       ELSE /\ pc' = "list"
            /\ req' = ListRequest(kind, lf.labels, sel)
            /\ UNCHANGED result
    /\ UNCHANGED <<kind, sel, store, storeCap, cancelAt, matches, summaries, calls, direct,
                   work>>

\* listRuns, one turn of the page loop
ListPage ==
    /\ pc = "list"
    /\ Len(calls) < MaxCalls
    /\ \E resp \in ListRecordsOutcomes(req) :
          /\ calls' = Append(calls, ListRecordsCall(req))
          /\ IF resp.err # NoErr
             THEN /\ Return([detail |-> <<>>, summaries |-> <<>>, err |-> resp.err])
                  /\ UNCHANGED <<req, summaries, work>>
             ELSE \E r \in {ListRecords(resp.Records, summaries, sel,
                                         parseLabelSelector(sel.LabelSelector).labels,
                                         EffectiveLimit(sel))} :
                  LET limit == EffectiveLimit(sel)
                      remaining == limit - Len(r.summaries)
                  IN /\ work' = work \o r.work
                     /\ IF r.err # NoErr
                        THEN /\ Return([detail |-> <<>>, summaries |-> <<>>, err |-> r.err])
                             /\ UNCHANGED <<req, summaries>>
                        ELSE IF r.full \/ resp.NextPageToken = 0
                        THEN /\ summaries' = r.summaries
                             /\ Return([detail |-> <<>>, summaries |-> r.summaries, err |-> NoErr])
                             /\ UNCHANGED req
                        ELSE IF remaining <= 0
                        THEN /\ summaries' = r.summaries
                             /\ Return([detail |-> <<>>, summaries |-> r.summaries, err |-> NoErr])
                             /\ req' = [req EXCEPT !.PageToken = resp.NextPageToken]
                        ELSE /\ summaries' = r.summaries
                             /\ req' = [req EXCEPT !.PageToken = resp.NextPageToken,
                                                   !.PageSize = NextPageSize(remaining, req.PageSize)]
                             /\ UNCHANGED <<pc, result>>
    /\ UNCHANGED <<kind, sel, store, storeCap, cancelAt, matches, direct>>

----------------------------------------------------------------------------
(* The listRuns specification *)

\* the runs the stores of the listRuns specification are made of
ListTemplates ==
    { ObjectBytes(Run(<<"a">>, NsF, EmptyStr, KV, 2, Succeeded)),
      ObjectBytes(Run(<<"b">>, NsF, EmptyStr, KV, 0, <<>>)),
      EmptyBytes }

IdTokens == <<"r1", "r2", "r3", "r4", "r5", "r6", "r7", "r8">>

StoresList ==
    UNION { { [i \in 1..n |-> Entry(NsF, <<IdTokens[i]>>, <<IdTokens[i]>>, TaskRunType, v[i])] :
                v \in [1..n -> ListTemplates] } : n \in 0..MaxListStore }

Limits == {-1, 0, 1, 2, 5, 250}

ListOptionsSet ==
    [Namespace : {NsF},
     LabelSelector : LabelSelectors,
     Prefix : {EmptyStr, <<"a">>},
     Limit : Limits]

InitList ==
    /\ kind \in Kinds
    /\ sel \in ListOptionsSet
    /\ store \in StoresList
    /\ storeCap \in 1..MaxListCap
    /\ cancelAt = -1
    /\ pc = "start"
    /\ req = NoReq
    /\ matches = <<>>
    /\ summaries = <<>>
    /\ calls = <<>>
    /\ direct = <<>>
    /\ work = <<>>
    /\ result = NoResult

NextList == ListRunsStart \/ ListPage \/ Cancel

SpecList == InitList /\ [][NextList]_vars

----------------------------------------------------------------------------
(* Both calls in one specification, with the fairness of a running call *)

\* the call in progress is a listRuns call (sel holds ListOptions)
IsListCall == "Limit" \in DOMAIN sel

InitCalls == Init \/ InitList

GetRunCall == ~IsListCall /\ (GetRunStart \/ DirectGet \/ ScanPage)

ListRunsCall == IsListCall /\ (ListRunsStart \/ ListPage)

NextCalls == GetRunCall \/ ListRunsCall \/ Cancel

SpecCalls == InitCalls /\ [][NextCalls]_vars

\* The calls of the liveness specification: stores of at most MaxLiveStore
\* records, served in pages of at most MaxStoreCap.
LiveSelectors ==
    [Namespace : {NsF},
     LabelSelector : {EmptyStr, <<"k", "=", "v">>},
     Prefix : {EmptyStr},
     Name : {EmptyStr, <<"a">>},
     UID : {EmptyStr, <<"u2">>},
     SelectLast : {FALSE}]

LiveListOptions ==
    [Namespace : {NsF},
     LabelSelector : {EmptyStr, <<"k", "=", "v">>},
     Prefix : {EmptyStr, <<"a">>},
     Limit : {0, 1, 2}]

LiveStoresGet == { st \in StoresGet : Len(st) <= MaxLiveStore }

LiveStoresList == { st \in StoresList : Len(st) <= MaxLiveStore }

InitLive ==
    /\ kind \in Kinds
    /\ \/ sel \in LiveSelectors /\ store \in LiveStoresGet
       \/ sel \in LiveListOptions /\ store \in LiveStoresList
    /\ storeCap \in 1..MaxStoreCap
    /\ cancelAt = -1
    /\ pc = "start"
    /\ req = NoReq
    /\ matches = <<>>
    /\ summaries = <<>>
    /\ calls = <<>>
    /\ direct = <<>>
    /\ work = <<>>
    /\ result = NoResult

\* the call has a next step: it has not returned, and its page loop is within
\* the budget of calls (the enabling condition of GetRunCall \/ ListRunsCall)
CanStep == pc # "done" /\ (pc \in {"scan", "list"} => Len(calls) < MaxCalls)

\* A call is sequential code on one goroutine and every remote call returns
\* (a response or an error), so a call that can take its next step takes it;
\* nothing obliges the caller to cancel.  The fairness condition is
\* WF_vars(GetRunCall \/ ListRunsCall), written with CanStep for its ENABLED.
SpecLive ==
    /\ InitLive /\ [][NextCalls]_vars
    /\ ([]<>(~CanStep) \/ []<><<GetRunCall \/ ListRunsCall>>_vars)

----------------------------------------------------------------------------
(* parseLabelSelector on its own: every selector string of up to
   MaxSelectorLen characters over the characters that matter to it *)

SelectorChars == {"k", "v", "=", ",", " "}

SelectorStrings == UNION { [1..n -> SelectorChars] : n \in 0..MaxSelectorLen }

InitParse ==
    /\ kind = resourceKindTaskRun
    /\ sel \in { [LabelSelector |-> str] : str \in SelectorStrings }
    /\ store = <<>>
    /\ storeCap = 1
    /\ cancelAt = -1
    /\ pc = "start"
    /\ req = NoReq
    /\ matches = <<>>
    /\ summaries = <<>>
    /\ calls = <<>>
    /\ direct = <<>>
    /\ work = <<>>
    /\ result = NoResult

\* labelFilters, err := parseLabelSelector(selector.LabelSelector)
ParseSelector ==
    /\ pc = "start"
    /\ pc' = "done"
    /\ result' = parseLabelSelector(sel.LabelSelector)
    /\ UNCHANGED <<kind, sel, store, storeCap, cancelAt, req, matches, summaries, calls,
                   direct, work>>

NextParse == ParseSelector

SpecParse == InitParse /\ [][NextParse]_vars

----------------------------------------------------------------------------
(* record.GetValue on its own: one record instance, read up to MaxGets times *)

ValueRuns ==
    { Run(name, NsF, uid, labels, 2, Succeeded) :
        name \in {<<"a">>, <<"b">>}, uid \in {EmptyStr, <<"u1">>}, labels \in {EmptyMap, KV} }

\* the payloads a record can carry: JSON objects, a JSON array, nothing, and
\* JSON strings whose base64 text decodes to one of those or does not decode
ValuePayloads ==
    LET plain == {ObjectBytes(run) : run \in ValueRuns} \cup {ArrayBytes, EmptyBytes}
    IN plain \cup {Base64String(bytes) : bytes \in plain} \cup {BadBase64String}

ValueRecords ==
    { Record(Entry(NsF, <<id>>, <<id>>, TaskRunType, payload)) :
        id \in {"r1", "r2"}, payload \in ValuePayloads }

InitValue ==
    /\ kind = resourceKindTaskRun
    /\ sel \in { [rec |-> rec] : rec \in ValueRecords }
    /\ store = <<>>
    /\ storeCap = 1
    /\ cancelAt = -1
    /\ pc = "value"
    /\ req = NoReq
    /\ matches = <<>>
    /\ summaries = <<>>
    /\ calls = <<>>
    /\ direct = <<>>
    /\ work = <<>>
    /\ result = <<>>

\* value, err := rec.GetValue() on the record instance sel.rec: the call
\* leaves its cache on the instance
GetValueCall ==
    /\ pc = "value"
    /\ Len(result) < MaxGets
    /\ \E gv \in {GetValue(sel.rec)} :
          /\ result' = Append(result, [value |-> gv.value, err |-> gv.err])
          /\ sel' = [rec |-> [sel.rec EXCEPT !.Data.valueDecoded = gv.valueDecoded]]
          /\ work' = work \o gv.work
    /\ UNCHANGED <<kind, store, storeCap, cancelAt, pc, req, matches, summaries, calls,
                   direct>>

NextValue == GetValueCall

SpecValue == InitValue /\ [][NextValue]_vars

----------------------------------------------------------------------------
(* One decoded record through the per-record steps of queryRecords: the UID
   filter and summarizeRun, for runs with up to MaxConds conditions *)

Conditions ==
    { [type |-> "Succeeded", status |-> "True", reason |-> "Succeeded"],
      [type |-> "Succeeded", status |-> "False", reason |-> "Failed"],
      [type |-> "Ready", status |-> "Unknown", reason |-> "Pending"] }

ConditionLists == UNION { [1..n -> Conditions] : n \in 0..MaxConds }

SummaryInputs ==
    { [run |-> Run(<<"a">>, NsF, uid, EmptyMap, 2, conds),
       rec |-> Record(Entry(NsF, <<"r1">>, id, TaskRunType,
                            ObjectBytes(Run(<<"a">>, NsF, uid, EmptyMap, 2, conds)))),
       selector |-> [Namespace |-> NsF, LabelSelector |-> EmptyStr, Prefix |-> EmptyStr,
                     Name |-> EmptyStr, UID |-> wanted, SelectLast |-> FALSE]] :
        uid \in {EmptyStr, <<"u1">>},
        id \in {EmptyStr, <<"u1">>, <<"u9">>},
        wanted \in {EmptyStr, <<"u1">>, <<"u9">>},
        conds \in ConditionLists }

InitSummary ==
    /\ kind = resourceKindTaskRun
    /\ sel \in SummaryInputs
    /\ store = <<>>
    /\ storeCap = 1
    /\ cancelAt = -1
    /\ pc = "start"
    /\ req = NoReq
    /\ matches = <<>>
    /\ summaries = <<>>
    /\ calls = <<>>
    /\ direct = <<>>
    /\ work = <<>>
    /\ result = NoResult

\* queryRecords on one decoded record: the selector's filters, then
\* summarizeRun(run, rec)
SummarizeRecord ==
    /\ pc = "start"
    /\ pc' = "done"
    /\ result' = [selected |-> Selected(sel.run, sel.rec, sel.selector, EmptyMap),
                  summary |-> summarizeRun(sel.run, sel.rec)]
    /\ UNCHANGED <<kind, sel, store, storeCap, cancelAt, req, matches, summaries, calls,
                   direct, work>>

NextSummary == SummarizeRecord

SpecSummary == InitSummary /\ [][NextSummary]_vars

----------------------------------------------------------------------------
(* tools: the handlers of the MCP tools, over a Service that answers as it
   will.  In this specification kind is the tool, sel the arguments of the
   request with the configured default namespace, req the options or the
   selector handed to the Service, calls the Service calls made so far,
   direct the Service's answers to them, matches the resolved run,
   summaries the sorted TaskRuns, work the log sections written so far and
   result the tool result. *)

\* most TaskRuns the Service returns for one PipelineRun
MaxTaskRuns == 3

maxListLimit == 200

ListTools == {"pipelinerun_list", "taskrun_list"}
GetTools == {"pipelinerun_describe", "taskrun_get"}
LogsTools == {"pipelinerun_logs", "taskrun_logs"}
PipelineRunTools == {"pipelinerun_list", "pipelinerun_describe", "pipelinerun_logs"}

\* case-sensitive variant of normalizeNamespace
normalizeNamespaceCaseSensitive(input, def) ==
    LET ns == TrimSpace(input) IN
    IF ns = EmptyStr THEN def
    ELSE IF ns \in {<<"-">>, <<"a", "l", "l">>, <<"*">>} THEN <<"-">>
    ELSE ns

\* tools.go: normalizeNamespace
normalizeNamespace(input, def) ==
    LET ns == TrimSpace(input) IN
    IF ToLower(ns) = EmptyStr THEN def
    ELSE IF ToLower(ns) \in {<<"-">>, <<"a", "l", "l">>, <<"*">>} THEN <<"-">>
    ELSE ns

\* the handlers' namespaceDefault
namespaceDefault(args) ==
    IF args.DefaultNamespace = EmptyStr THEN DefaultNs ELSE args.DefaultNamespace

sanitizeLimit(limit) ==
    IF limit <= 0 THEN defaultListLimit
    ELSE IF limit > maxListLimit THEN maxListLimit
    ELSE limit

\* the uid the arguments are bound with: describeParams and logsParams of
\* pipelinerun.go have no uid field
BoundUID(tool, args) ==
    IF tool \in PipelineRunTools THEN EmptyStr ELSE args.UID

\* the first check of the get and logs handlers
UnderSpecified(tool, args) ==
    /\ args.Name = EmptyStr /\ args.Prefix = EmptyStr
    /\ TrimSpace(args.LabelSelector) = EmptyStr
    /\ tool = "taskrun_get" => args.UID = EmptyStr

UnderSpecifiedText(tool) ==
    CASE tool = "taskrun_get" ->
           <<"provide at least one of name, prefix, uid, or labelSelector to identify a TaskRun">>
      [] tool = "taskrun_logs" ->
           <<"provide at least one of name, prefix, uid, or labelSelector to target a TaskRun">>
      [] tool = "pipelinerun_describe" ->
           <<"provide at least one of name, prefix, or labelSelector to identify a PipelineRun">>
      [] OTHER ->
           <<"provide at least one of name, prefix, or labelSelector to target a PipelineRun">>

\* selectLast taken from the bound arguments, false when absent
selectLastBound(args) == args.SelectLast = "true"

\* the handlers' selectLast: true unless the raw arguments hold a boolean
selectLast(args) ==
    IF args.SelectLast \in {"true", "false"} THEN args.SelectLast = "true" ELSE TRUE

\* the RunSelector the get and logs handlers build
ToolSelector(tool, args) ==
    [Namespace |-> normalizeNamespace(args.Namespace, namespaceDefault(args)),
     LabelSelector |-> args.LabelSelector,
     Prefix |-> args.Prefix,
     Name |-> args.Name,
     UID |-> BoundUID(tool, args),
     SelectLast |-> selectLast(args)]

\* the ListOptions the list handlers build
ToolListOptions(args) ==
    [Namespace |-> normalizeNamespace(args.Namespace, namespaceDefault(args)),
     LabelSelector |-> args.LabelSelector,
     Prefix |-> args.Prefix,
     Limit |-> sanitizeLimit(args.Limit)]

\* the ListOptions pipelinerun_logs asks the TaskRuns of a PipelineRun with
TaskRunOptions(ns, detail) ==
    [Namespace |-> ns,
     LabelSelector |-> <<"tekton.dev/pipelineRunUID", "=">> \o detail.Summary.UID,
     Prefix |-> EmptyStr,
     Limit |-> 200]

NewToolResultError(text) == [IsError |-> TRUE, text |-> text]
NewToolResultText(text) == [IsError |-> FALSE, text |-> text]

\* Completed that takes every resolved run for completed
CompletedAlways(d) == TRUE

\* RunDetail.Completed
Completed(d) == d.Summary.CompletionTime # 0

\* RunDetail.Format with the handlers' choice of the output
Format(d, output) ==
    LET out == ToLower(TrimSpace(output)) IN
    IF out \in {EmptyStr, <<"yaml">>} THEN [text |-> <<"yaml of ">> \o d.RecordName, err |-> NoErr]
    ELSE IF out = <<"json">> THEN [text |-> <<"json of ">> \o d.RecordName, err |-> NoErr]
    ELSE [text |-> EmptyStr, err |-> <<"unsupported output ">> \o out]

\* the comparator of pipelinerun_logs: completion time, then start time
taskRunLess(a, b) ==
    IF a.CompletionTime # 0 /\ b.CompletionTime # 0 /\ a.CompletionTime # b.CompletionTime
    THEN a.CompletionTime < b.CompletionTime
    ELSE IF a.StartTime # 0 /\ b.StartTime # 0
    THEN a.StartTime < b.StartTime
    ELSE FALSE

\* sort.Slice on a slice of at most 12 elements is an insertion sort: the
\* last element moves down while it is less than the one before it
RECURSIVE sinkLast(_)
sinkLast(s) ==
    IF Len(s) >= 2 /\ taskRunLess(s[Len(s)], s[Len(s) - 1])
    THEN Append(sinkLast(Append(SubSeq(s, 1, Len(s) - 2), s[Len(s)])), s[Len(s) - 1])
    ELSE s

RECURSIVE sortTaskRuns(_)
sortTaskRuns(s) ==
    IF Len(s) <= 1 THEN s
    ELSE sinkLast(Append(sortTaskRuns(SubSeq(s, 1, Len(s) - 1)), s[Len(s)]))

\* one section of pipelinerun_logs: the header of the TaskRun and its logs
LogSection(tr, out) ==
    [TaskRun |-> tr.Name, Status |-> tr.Reason,
     Started |-> tr.StartTime, Completed |-> tr.CompletionTime,
     body |-> IF out.err # NoErr THEN <<"Error fetching logs: ">> \o out.err \o <<"\n">>
              ELSE IF out.logs = EmptyStr THEN <<"(no logs available)\n">>
              ELSE IF out.logs[Len(out.logs)] = "\n" THEN out.logs
              ELSE out.logs \o <<"\n">>]

ToolCall(op, arg) == [op |-> op, arg |-> arg]

\* what the Service answers -------------------------------------------------

ToolSummary(name, uid, start, completion, recordName) ==
    [Name |-> name, Namespace |-> NsF, UID |-> uid, Labels |-> EmptyMap,
     StartTime |-> start, CompletionTime |-> completion,
     Status |-> "Unknown", Reason |-> "", RecordName |-> recordName]

ToolDetail(summary) ==
    [Summary |-> summary, Raw |-> ArrayBytes, RecordName |-> summary.RecordName]

\* a resolved run that completed and one that still runs
ToolDetails ==
    { ToolDetail(ToolSummary(<<"a">>, <<"p1">>, 1, c,
                             NsF \o <<"/results/", "p1", "/records/", "p1">>)) : c \in {0, 9} }

\* GetPipelineRun / GetTaskRun
GetOutcomes ==
    { [detail |-> <<>>, err |-> NoRunFoundErr] }
    \cup { [detail |-> <<d>>, err |-> NoErr] : d \in ToolDetails }

\* the TaskRuns of a PipelineRun: with both times, and lacking one or both
TaskRunTemplates ==
    { ToolSummary(<<"t1">>, <<"t1">>, 1, 5, NsF \o <<"/results/", "p1", "/records/", "t1">>),
      ToolSummary(<<"t2">>, <<"t2">>, 2, 3, NsF \o <<"/results/", "p1", "/records/", "t2">>),
      ToolSummary(<<"t3">>, <<"t3">>, 0, 0, NsF \o <<"/results/", "p1", "/records/", "t3">>),
      ToolSummary(<<"t4">>, <<"t4">>, 3, 0, NsF \o <<"/results/", "p1", "/records/", "t4">>) }

\* lists of distinct TaskRuns, in any order
TaskRunLists ==
    UNION { { l \in [1..n -> TaskRunTemplates] : \A i, j \in 1..n : i # j => l[i] # l[j] } :
              n \in 0..MaxTaskRuns }

\* ListPipelineRuns / ListTaskRuns
ListOutcomes ==
    { [summaries |-> <<>>, err |-> UnavailableErr] }
    \cup { [summaries |-> l, err |-> NoErr] : l \in TaskRunLists }

\* FetchLogs
FetchOutcomes ==
    { [logs |-> EmptyStr, err |-> NetworkErr],
      [logs |-> EmptyStr, err |-> NoErr],
      [logs |-> <<"line">>, err |-> NoErr] }

\* the handlers -----------------------------------------------------------

\* a handler up to its first Service call
ToolStart ==
    /\ pc = "start"
    /\ IF kind \in ListTools
       THEN /\ pc' = "listruns"
            /\ req' = ToolListOptions(sel)
            /\ UNCHANGED result
       ELSE IF UnderSpecified(kind, sel)
       THEN /\ Return(NewToolResultError(UnderSpecifiedText(kind)))
            /\ UNCHANGED req
       ELSE /\ pc' = "get"
            /\ req' = ToolSelector(kind, sel)
            /\ UNCHANGED result
    /\ UNCHANGED <<kind, sel, store, storeCap, cancelAt, matches, summaries, calls, direct,
                   work>>

\* the list handlers: ListPipelineRuns or ListTaskRuns, and the payload
ToolList ==
    /\ pc = "listruns"
    /\ \E out \in ListOutcomes :
          /\ calls' = Append(calls, ToolCall(IF kind = "pipelinerun_list"
                                             THEN "ListPipelineRuns" ELSE "ListTaskRuns", req))
          /\ direct' = Append(direct, out)
          /\ IF out.err # NoErr
             THEN Return(NewToolResultError(out.err))
             ELSE Return(NewToolResultText(<<"json of ", out.summaries>>))
    /\ UNCHANGED <<kind, sel, store, storeCap, cancelAt, req, matches, summaries, work>>

\* the get and logs handlers: GetPipelineRun or GetTaskRun, and what follows
\* up to the next Service call
ToolGet ==
    /\ pc = "get"
    /\ \E out \in GetOutcomes :
          /\ calls' = Append(calls, ToolCall(IF kind \in PipelineRunTools
                                             THEN "GetPipelineRun" ELSE "GetTaskRun", req))
          /\ direct' = Append(direct, out)
          /\ IF out.err # NoErr
             THEN /\ Return(NewToolResultError(out.err))
                  /\ UNCHANGED matches
             ELSE /\ matches' = out.detail
                  /\ IF kind \in GetTools
                     THEN LET f == Format(out.detail[1], sel.Output) IN
                          IF f.err # NoErr
                          THEN Return(NewToolResultError(f.err))
                          ELSE Return(NewToolResultText(f.text))
                     ELSE IF ~Completed(out.detail[1])
                     THEN Return(NewToolResultError(
                             IF kind = "taskrun_logs"
                             THEN <<"logs are only available after the TaskRun has completed">>
                             ELSE <<"logs are only available after the PipelineRun has completed">>))
                     ELSE /\ pc' = IF kind = "taskrun_logs" THEN "logs" ELSE "taskruns"
                          /\ UNCHANGED result
    /\ UNCHANGED <<kind, sel, store, storeCap, cancelAt, req, summaries, work>>

\* taskrun_logs: FetchLogs of the resolved run
ToolFetchLogs ==
    /\ pc = "logs"
    /\ \E out \in FetchOutcomes :
          /\ calls' = Append(calls, ToolCall("FetchLogs", matches[1].RecordName))
          /\ direct' = Append(direct, out)
          /\ IF out.err # NoErr
             THEN Return(NewToolResultError(out.err))
             ELSE Return(NewToolResultText(out.logs))
    /\ UNCHANGED <<kind, sel, store, storeCap, cancelAt, req, matches, summaries, work>>

\* pipelinerun_logs: ListTaskRuns of the resolved PipelineRun, and the sort
ToolListTaskRuns ==
    /\ pc = "taskruns"
    /\ \E out \in ListOutcomes :
          /\ calls' = Append(calls, ToolCall("ListTaskRuns",
                                             TaskRunOptions(req.Namespace, matches[1])))
          /\ direct' = Append(direct, out)
          /\ IF out.err # NoErr
             THEN /\ Return(NewToolResultError(<<"failed to list TaskRuns: ">> \o out.err))
                  /\ UNCHANGED summaries
             ELSE IF Len(out.summaries) = 0
             THEN /\ Return(NewToolResultText(<<"No TaskRuns found for this PipelineRun">>))
                  /\ UNCHANGED summaries
             ELSE /\ summaries' = sortTaskRuns(out.summaries)
                  /\ pc' = "sections"
                  /\ UNCHANGED result
    /\ UNCHANGED <<kind, sel, store, storeCap, cancelAt, req, matches, work>>

\* pipelinerun_logs: one turn of the loop over the sorted TaskRuns
ToolFetchSection ==
    /\ pc = "sections"
    /\ LET tr == summaries[Len(work) + 1] IN
       \E out \in FetchOutcomes :
          /\ calls' = Append(calls, ToolCall("FetchLogs", tr.RecordName))
          /\ direct' = Append(direct, out)
          /\ work' = Append(work, LogSection(tr, out))
          /\ IF Len(work) + 1 = Len(summaries)
             THEN Return(NewToolResultText(Append(work, LogSection(tr, out))))
             ELSE UNCHANGED <<pc, result>>
    /\ UNCHANGED <<kind, sel, store, storeCap, cancelAt, req, matches, summaries>>

\* the requests -------------------------------------------------------------

ToolNamespaces ==
    { EmptyStr, <<" ">>, <<"-">>, <<"A", "l", "l">>, <<"*">>, NsF, <<" ", "f", " ">>,
      <<"a", "l", "l", "f">> }

\* selectLast in the raw arguments: absent, a boolean, or null
SelectLastValues == {"absent", "true", "false", "null"}

\* the arguments: every way of identifying a run with every selectLast in
\* the namespace f, and every namespace with every default for a run
\* identified by name or not at all
ToolArguments ==
    { a \in [Namespace : ToolNamespaces,
             LabelSelector : {EmptyStr, <<" ">>, <<"k", "=", "v">>},
             Prefix : {EmptyStr, <<"a">>},
             Name : {EmptyStr, <<"a">>},
             UID : {EmptyStr, <<"p1">>},
             SelectLast : SelectLastValues,
             Output : {EmptyStr, <<"json">>, <<"xml">>},
             Limit : {-1, 0, 5, 250},
             DefaultNamespace : {EmptyStr, NsF}] :
        /\ \/ a.Namespace = NsF /\ a.DefaultNamespace = EmptyStr
           \/ a.Prefix = EmptyStr /\ a.UID = EmptyStr /\ a.LabelSelector = EmptyStr
        /\ a.Output # EmptyStr => a.Namespace = NsF /\ a.SelectLast = "absent"
        /\ a.Limit # 0 => a.Namespace = NsF /\ a.SelectLast = "absent" }

InitTools ==
    /\ kind \in ListTools \cup GetTools \cup LogsTools
    /\ sel \in ToolArguments
    /\ kind \in ListTools =>
          sel.Name = EmptyStr /\ sel.UID = EmptyStr /\ sel.SelectLast = "absent"
    /\ kind \notin ListTools => sel.Limit = 0
    /\ kind \notin GetTools => sel.Output = EmptyStr
    /\ store = <<>>
    /\ storeCap = 0
    /\ cancelAt = -1
    /\ pc = "start"
    /\ req = NoReq
    /\ matches = <<>>
    /\ summaries = <<>>
    /\ calls = <<>>
    /\ direct = <<>>
    /\ work = <<>>
    /\ result = NewToolResultText(EmptyStr)

NextTools ==
    ToolStart \/ ToolList \/ ToolGet \/ ToolFetchLogs \/ ToolListTaskRuns \/ ToolFetchSection

SpecTools == InitTools /\ [][NextTools]_vars

----------------------------------------------------------------------------
(* What the claims speak about, stated on the store's contents *)

\* the payload of a stored record holds a Tekton resource
Decodes(e) == StoreDoc(e) # <<>>

\* the unique id of a stored run: the payload's, or else the record's
EffectiveUID(e) ==
    IF StoreDoc(e)[1].metadata.uid # EmptyStr
    THEN StoreDoc(e)[1].metadata.uid ELSE e.id

WantedLabels == parseLabelSelector(sel.LabelSelector).labels

\* the stored record satisfies every predicate of the selector
Fits(e) ==
    /\ Decodes(e)
    /\ sel.UID # EmptyStr => EffectiveUID(e) = sel.UID
    /\ \A key \in DOMAIN WantedLabels :
          /\ key \in DOMAIN StoreDoc(e)[1].metadata.labels
          /\ StoreDoc(e)[1].metadata.labels[key] = WantedLabels[key]
    /\ sel.Prefix # EmptyStr =>
          /\ Len(StoreDoc(e)[1].metadata.name) >= Len(sel.Prefix)
          /\ \A i \in 1..Len(sel.Prefix) : StoreDoc(e)[1].metadata.name[i] = sel.Prefix[i]
    /\ sel.Name # EmptyStr => StoreDoc(e)[1].metadata.name = sel.Name

\* the detail of a stored run
DetailOf(e) ==
    LET doc == StoreDoc(e)[1]
        name == e.ns \o <<"/results/">> \o e.result \o <<"/records/">> \o e.id
    IN [Summary |-> [Name |-> doc.metadata.name,
                     Namespace |-> doc.metadata.namespace,
                     UID |-> EffectiveUID(e),
                     Labels |-> doc.metadata.labels,
                     StartTime |-> doc.status.startTime,
                     CompletionTime |-> doc.status.completionTime,
                     Status |-> conditionStatus(doc.status.conditions)[1],
                     Reason |-> conditionStatus(doc.status.conditions)[2],
                     RecordName |-> name],
        Raw |-> ObjectBytes(doc),
        RecordName |-> name]

Returned(e) == result = [detail |-> <<DetailOf(e)>>, summaries |-> <<>>, err |-> NoErr]

\* the records the scan lists over all its pages, in store-reported order
Scanned == IF req = NoReq THEN <<>> ELSE Listing(store, req)

\* those of them that satisfy the selector
FitsInOrder == SelectSeq(Scanned, Fits)

GetCalls == Cardinality({i \in 1..Len(calls) : calls[i].op = "getRecord"})
ListCalls == Cardinality({i \in 1..Len(calls) : calls[i].op = "listRecords"})

\* the call was ended by a failed remote call or by a record that does not
\* decode (the abort cases of the error policy)
AbortHeads ==
    { "get value for record ", "record ", "decode Tekton resource in record ",
      "get value for detail: ", "decode run from direct get: ",
      "get value for detail from direct get: " }

Aborted ==
    /\ result.err # NoErr
    /\ \/ result.err \in {UnavailableErr, CancelledErr}
       \/ result.err[1] \in AbortHeads

\* the page loop of the scan ran until the store had no further page
ScanExhausted ==
    /\ pc = "done"
    /\ ListCalls >= 1
    /\ ~Aborted
    /\ PageOf(calls[Len(calls)].req).NextPageToken = 0

DirectOK == direct # <<>> /\ direct[1].err = NoErr

\* the stored record a returned record was read from
EntryOf(rec) == CHOOSE e \in {store[i] : i \in 1..Len(store)} : Record(e).Name = rec.Name

----------------------------------------------------------------------------
(* C1..C7: getRun *)

\* C1: when the selector carries a UID and the direct getRecord succeeds, the
\* whole call issues exactly one remote call, that getRecord, and no
\* listRecords, and it returns the detail built from the record (a record
\* whose payload does not decode ends the call with the decode error).
C1_FastPathOneCall ==
    (pc = "done" /\ sel.UID # EmptyStr /\ DirectOK) =>
        /\ calls = <<GetRecordCall(DirectRecordName(sel))>>
        /\ GetCalls = 1 /\ ListCalls = 0
        /\ LET e == EntryOf(direct[1].rec[1]) IN
           IF Decodes(e) THEN Returned(e)
           ELSE result.detail = <<>> /\ Aborted

C1_Witness ==
    /\ pc = "done" /\ sel.UID # EmptyStr /\ DirectOK
    /\ result.detail # <<>>
    /\ kind = resourceKindPipelineRun
    /\ Len(store) > 1

\* the records a scan for the selector lists over all its pages
FallbackScanned == Listing(store, ScanRequest(kind, WantedLabels, sel))

C3_OnlyNotFoundFallsBack ==
    ( /\ direct # <<>> /\ direct[1].err # NoErr
      /\ ~(kind = resourceKindTaskRun /\ direct[1].err = NotFoundErr) )
    => /\ pc = "done"
       /\ result.detail = <<>>
       /\ result.err = <<"get record by UID: ">> \o direct[1].err
       /\ ListCalls = 0

\* C4: when the scan ran until the store was exhausted and no listed record
\* satisfies all predicates of the selector, getRun fails with the
\* no-run-found error and returns no detail.
C4_NoRunFound ==
    (ScanExhausted /\ Len(FitsInOrder) = 0) =>
        result = [detail |-> <<>>, summaries |-> <<>>, err |-> NoRunFoundErr]

C4_Witness ==
    /\ ScanExhausted /\ Len(FitsInOrder) = 0
    /\ kind = resourceKindTaskRun /\ sel.UID # EmptyStr
    /\ direct # <<>> /\ direct[1].err = NotFoundErr
    /\ Len(Scanned) >= 2 /\ ListCalls >= 2

\* C5: when two or more listed records satisfy the selector and SelectLast
\* is true, getRun returns the first of them in the order the store reported
\* them, across pages.
C5_FirstInStoreOrder ==
    ( /\ pc = "done" /\ ListCalls >= 1 /\ ~Aborted
      /\ Len(FitsInOrder) >= 2 /\ sel.SelectLast )
    => Returned(FitsInOrder[1])

C5_Witness ==
    /\ pc = "done" /\ ListCalls >= 2 /\ ~Aborted
    /\ Len(FitsInOrder) >= 2 /\ sel.SelectLast
    /\ result.detail # <<>>
    /\ Scanned[1] # FitsInOrder[1]

\* C6 as stated: with several matches and SelectLast false, the error names
\* the namespace/name pair of every matching run in the store.
C6_NamesEveryMatch ==
    ( /\ pc = "done" /\ ListCalls >= 1 /\ ~Aborted
      /\ Len(FitsInOrder) >= 2 /\ ~sel.SelectLast )
    => /\ result.detail = <<>>
       /\ result.err = AmbiguousHead
              \o Join([i \in 1..Len(FitsInOrder) |->
                          StoreDoc(FitsInOrder[i])[1].metadata.namespace \o <<"/">>
                          \o StoreDoc(FitsInOrder[i])[1].metadata.name], <<", ">>)
              \o AmbiguousTail

\* C6 amended: with several matches and SelectLast false, getRun fails with
\* the ambiguous-selector error, whose message names the namespace/name pairs
\* of the first two matching runs in store order and of no other run.
C6_NamesFirstTwo ==
    ( /\ pc = "done" /\ ListCalls >= 1 /\ ~Aborted
      /\ Len(FitsInOrder) >= 2 /\ ~sel.SelectLast )
    => /\ result.detail = <<>>
       /\ result.err = AmbiguousHead
              \o StoreDoc(FitsInOrder[1])[1].metadata.namespace \o <<"/">>
              \o StoreDoc(FitsInOrder[1])[1].metadata.name
              \o <<", ">>
              \o StoreDoc(FitsInOrder[2])[1].metadata.namespace \o <<"/">>
              \o StoreDoc(FitsInOrder[2])[1].metadata.name
              \o AmbiguousTail

C6_Witness ==
    /\ pc = "done" /\ ListCalls >= 2 /\ ~Aborted
    /\ Len(FitsInOrder) >= 3 /\ ~sel.SelectLast
    /\ result.err # NoErr

\* C7: when exactly one listed record satisfies the selector, the scan
\* returns it, wherever it stands among the pages and whatever SelectLast is.
C7_SingleMatch ==
    ( /\ pc = "done" /\ ListCalls >= 1 /\ ~Aborted
      /\ Len(FitsInOrder) = 1 )
    => Returned(FitsInOrder[1])

C7_Witness ==
    /\ pc = "done" /\ ListCalls >= 2 /\ ~Aborted
    /\ Len(FitsInOrder) = 1
    /\ ~sel.SelectLast
    /\ Len(Scanned) >= 2
    /\ Scanned[Len(Scanned)] = FitsInOrder[1]
    /\ result.detail # <<>>

----------------------------------------------------------------------------
(* C8..C10: the pagination walker *)

\* the stored record satisfies the label and prefix predicates of the options
ListFits(e) ==
    /\ Decodes(e)
    /\ \A key \in DOMAIN WantedLabels :
          /\ key \in DOMAIN StoreDoc(e)[1].metadata.labels
          /\ StoreDoc(e)[1].metadata.labels[key] = WantedLabels[key]
    /\ sel.Prefix # EmptyStr =>
          /\ Len(StoreDoc(e)[1].metadata.name) >= Len(sel.Prefix)
          /\ \A i \in 1..Len(sel.Prefix) : StoreDoc(e)[1].metadata.name[i] = sel.Prefix[i]

ListFitsInOrder == SelectSeq(Scanned, ListFits)

\* the cap of a list call: the limit, 50 when the limit is not positive
Cap == IF sel.Limit <= 0 THEN 50 ELSE sel.Limit

\* C8: listRuns returns exactly the first min(L, M) records that satisfy the
\* label and prefix predicates, in store-reported order, never more than L,
\* and it stops only when the cap is reached or the store returned an empty
\* continuation token.
C8_FirstLimitMatches ==
    (pc = "done" /\ ListCalls >= 1 /\ ~Aborted) =>
        LET n == Min(Cap, Len(ListFitsInOrder)) IN
        /\ result.err = NoErr
        /\ result.summaries = [i \in 1..n |-> DetailOf(ListFitsInOrder[i]).Summary]
        /\ Len(result.summaries) <= Cap
        /\ \/ Len(result.summaries) = Cap
           \/ PageOf(calls[Len(calls)].req).NextPageToken = 0

C8_Witness ==
    /\ pc = "done" /\ ListCalls >= 2 /\ ~Aborted
    /\ sel.Limit = 2 /\ sel.Prefix # EmptyStr
    /\ Len(ListFitsInOrder) > 2
    /\ Len(result.summaries) = 2
    /\ ~ListFits(Scanned[1])

\* C9: every listRecords request of listRuns asks for a page no larger than
\* the budget that remains when it is sent (the limit minus the items
\* accumulated from the pages before it) and no larger than 200; with limit 5
\* and a store serving pages of 3, exactly 2 requests are made, 5 items are
\* returned and the second request asks for 2.
C9_PageSizeWithinBudget ==
    /\ \A i \in 1..Len(calls) :
          /\ calls[i].req.PageSize <= maxPageSize
          /\ calls[i].req.PageSize <=
                Cap - Len(SelectSeq(SubSeq(Scanned, 1, calls[i].req.PageToken), ListFits))
    /\ pc = "list" =>
          /\ req.PageSize <= maxPageSize
          /\ req.PageSize <= Cap - Len(summaries)
    /\ ( /\ pc = "done" /\ ~Aborted /\ ListCalls >= 1
         /\ sel.Limit = 5 /\ storeCap = 3
         /\ Len(Scanned) >= 5
         /\ \A i \in 1..5 : ListFits(Scanned[i]) )
       => /\ ListCalls = 2
          /\ Len(result.summaries) = 5
          /\ calls[2].req.PageSize = 2

C9_Witness ==
    /\ pc = "done" /\ ~Aborted
    /\ sel.Limit = 5 /\ storeCap = 3
    /\ Len(Scanned) >= 5
    /\ \A i \in 1..5 : ListFits(Scanned[i])
    /\ Len(calls) = 2 /\ calls[2].req.PageSize = 2
    /\ Len(result.summaries) = 5

\* C10: once the context is cancelled after the first page was fetched and
\* before the second is requested, the walker issues no second listRecords
\* request.
C10_NoRequestAfterCancel ==
    (cancelAt = 1 /\ calls[1].op = "listRecords") => Len(calls) = 1

----------------------------------------------------------------------------
(* C11: termination *)

\* the token the store returned with the last page fetched
LastToken == PageOf(calls[Len(calls)].req).NextPageToken

\* C11: every getRun and listRuns call terminates on a store that returns an
\* empty continuation token after finitely many pages: a page loop that goes
\* on after a page has a non-empty token and has not reached its cap (two
\* matches for getRun, the limit for listRuns), it never runs out of the
\* model's budget of calls, and the call eventually returns.
C11_Terminates ==
    /\ [](pc = "scan" /\ ListCalls >= 1 => LastToken # 0 /\ Len(matches) <= 1)
    /\ [](pc = "list" /\ ListCalls >= 1 =>
              LastToken # 0 /\ Len(summaries) < EffectiveLimit(sel))
    /\ [](pc # "done" => Len(calls) < MaxCalls)
    /\ <>(pc = "done")

\* a list call that fetched every page and found every record filtered out
C11_Witness ==
    /\ pc = "done" /\ IsListCall /\ ~Aborted
    /\ ListCalls >= 3 /\ LastToken = 0
    /\ Len(work) >= 3
    /\ result.summaries = <<>>

----------------------------------------------------------------------------
(* C12: parseLabelSelector *)

\* the positions where a comma-separated pair of str starts
PairStarts(str) == {1} \cup {i + 1 : i \in {j \in 1..Len(str) : str[j] = ","}}

\* the pair of str that starts at position a: up to the next comma or the end
PairAt(str, a) ==
    LET ends == {j \in a..Len(str) : str[j] = ","}
        b == IF ends = {} THEN Len(str)
             ELSE (CHOOSE j \in ends : \A x \in ends : j <= x) - 1
    IN SubSeq(str, a, b)

Blank(t) == \A i \in 1..Len(t) : t[i] = " "

\* t without the spaces around it
Strip(t) ==
    IF Blank(t) THEN <<>>
    ELSE LET inked == {i \in 1..Len(t) : t[i] # " "}
             lo == CHOOSE i \in inked : \A x \in inked : i <= x
             hi == CHOOSE i \in inked : \A x \in inked : i >= x
         IN SubSeq(t, lo, hi)

HasEq(t) == \E i \in 1..Len(t) : t[i] = "="

FirstEq(t) == CHOOSE i \in 1..Len(t) : t[i] = "=" /\ \A j \in 1..(i - 1) : t[j] # "="

KeyOf(t) == Strip(SubSeq(t, 1, FirstEq(t) - 1))

ValueOf(t) == Strip(SubSeq(t, FirstEq(t) + 1, Len(t)))

\* key=value with a non-empty key and a non-empty value
WellFormed(t) == HasEq(t) /\ KeyOf(t) # <<>> /\ ValueOf(t) # <<>>

\* the mapping result.labels holds exactly the entries of the pairs of str
\* that start at the positions in starts, the last value of a key winning
HoldsEntries(str, starts) ==
    /\ DOMAIN result.labels = {KeyOf(PairAt(str, a)) : a \in starts}
    /\ \A a \in starts :
          (\A b \in starts : b > a => KeyOf(PairAt(str, b)) # KeyOf(PairAt(str, a)))
              => result.labels[KeyOf(PairAt(str, a))] = ValueOf(PairAt(str, a))

\* C12 as stated: the parse succeeds exactly when every comma-separated pair
\* is a well-formed key=value, and fails whenever some pair lacks "=" or has
\* an empty side (a whitespace-only input gives the empty mapping).
C12_EveryPairWellFormed ==
    pc = "done" =>
        LET str == sel.LabelSelector IN
        IF Blank(str) THEN result.err = NoErr /\ DOMAIN result.labels = {}
        ELSE IF \A a \in PairStarts(str) : WellFormed(PairAt(str, a))
        THEN result.err = NoErr /\ HoldsEntries(str, PairStarts(str))
        ELSE result.err # NoErr

\* C12 amended: pairs that are empty or only spaces are skipped; the parse
\* succeeds exactly when every other comma-separated pair is a well-formed
\* key=value (split at its first "=", both sides trimmed and non-empty), and
\* it then returns exactly the entries of those pairs, the last value of a
\* repeated key winning; otherwise it fails and returns no mapping.
C12_NonBlankPairsWellFormed ==
    pc = "done" =>
        LET str == sel.LabelSelector
            starts == {a \in PairStarts(str) : ~Blank(PairAt(str, a))}
        IN IF \A a \in starts : WellFormed(PairAt(str, a))
           THEN result.err = NoErr /\ HoldsEntries(str, starts)
           ELSE result.err # NoErr /\ DOMAIN result.labels = {}

\* "k=v,k=k": a repeated key, the last value wins
C12_Witness ==
    /\ pc = "done"
    /\ sel.LabelSelector = <<"k", "=", "v", ",", "k", "=", "k">>
    /\ result.err = NoErr
    /\ result.labels[<<"k">>] = <<"k">>

----------------------------------------------------------------------------
(* C13..C15: record payloads *)

\* C13: GetValue returns a payload that is a JSON object or array unchanged,
\* returns the bytes the base64 text decodes to for a payload that is a JSON
\* string, and every call on the same record returns the same bytes and error
\* as the first.
C13_GetValueIdempotent ==
    pc = "value" =>
        LET payload == sel.rec.Data.Value IN
        /\ \A i \in 1..Len(result) : result[i] = result[1]
        /\ (Len(result) >= 1 /\ payload.form \in {"object", "array"}) =>
              result[1] = [value |-> payload, err |-> NoErr]
        /\ (Len(result) >= 1 /\ payload.form = "string" /\ payload.inner # <<>>) =>
              /\ result[1].err = NoErr
              /\ Base64String(result[1].value) = payload

\* a base64 payload read three times, decoded once
C13_Witness ==
    /\ pc = "value"
    /\ Len(result) = 3
    /\ sel.rec.Data.Value.form = "string"
    /\ result[3].err = NoErr
    /\ result[3].value.form = "object"
    /\ Len(work) = 1

\* C14: within one getRun call the payload of a fetched record is decoded at
\* most once: no record name appears twice in the log of decodes.
C14_DecodeOnce ==
    ~IsListCall => \A i, j \in 1..Len(work) : work[i] = work[j] => i = j

\* the names of the records the call handed to decodeRun
Met == {work[i] : i \in 1..Len(work)}

EmptyRecordErr(name) == <<"record ">> \o name \o <<" has no embedded Tekton data">>

\* C15: a getRun or listRuns call that meets a record whose payload value is
\* empty has returned, with the empty-record error of that record (wrapped on
\* the direct path) and neither a run nor a list.
C15_EmptyRecordFails ==
    \A i \in 1..Len(store) :
        (store[i].value = EmptyBytes /\ Record(store[i]).Name \in Met) =>
            /\ pc = "done"
            /\ result.detail = <<>> /\ result.summaries = <<>>
            /\ result.err \in
                  { EmptyRecordErr(Record(store[i]).Name),
                    <<"decode run from direct get: ">> \o EmptyRecordErr(Record(store[i]).Name) }

\* a listRuns call that met an empty record after two records that matched
C15_Witness ==
    /\ pc = "done" /\ IsListCall
    /\ Len(work) >= 3
    /\ Len(summaries) >= 2
    /\ \E i \in 1..Len(store) :
          store[i].value = EmptyBytes /\ Record(store[i]).Name = work[Len(work)]
    /\ result.err # NoErr

----------------------------------------------------------------------------
(* C16, C17: summarizeRun *)

\* C16: the status and reason of a summary are those of the first condition
\* of the run whose type is "Succeeded"; with no such condition both are
\* empty, and the summary is produced all the same.
C16_FirstSucceededCondition ==
    pc = "done" =>
        LET conds == sel.run.status.conditions
            hits == {i \in 1..Len(conds) : conds[i].type = "Succeeded"}
        IN /\ result.summary.Name = sel.run.metadata.name
           /\ IF hits = {}
              THEN result.summary.Status = "" /\ result.summary.Reason = ""
              ELSE \E i \in hits :
                      /\ \A j \in hits : i <= j
                      /\ result.summary.Status = conds[i].status
                      /\ result.summary.Reason = conds[i].reason

\* two "Succeeded" conditions that disagree, after a condition of another type
C16_Witness ==
    /\ pc = "done"
    /\ Len(sel.run.status.conditions) = 3
    /\ sel.run.status.conditions[1].type = "Ready"
    /\ sel.run.status.conditions[2].status = "False"
    /\ sel.run.status.conditions[3].status = "True"
    /\ result.summary.Status = "False" /\ result.summary.Reason = "Failed"

\* C17: the UID of a summary is the payload's metadata UID when that is not
\* empty and otherwise the record's transport-level uid, and a selector UID
\* selects the record exactly when it equals that same value.
C17_UIDFallback ==
    pc = "done" =>
        /\ sel.run.metadata.uid # EmptyStr => result.summary.UID = sel.run.metadata.uid
        /\ sel.run.metadata.uid = EmptyStr => result.summary.UID = sel.rec.Uid
        /\ sel.selector.UID # EmptyStr =>
              (result.selected <=> result.summary.UID = sel.selector.UID)

\* a payload without uid, selected by the record's transport-level uid
C17_Witness ==
    /\ pc = "done"
    /\ sel.run.metadata.uid = EmptyStr
    /\ sel.rec.Uid = <<"u9">>
    /\ sel.selector.UID = <<"u9">>
    /\ result.selected
    /\ result.summary.UID = <<"u9">>

----------------------------------------------------------------------------
(* C18..C20: requests and aborts *)

\* the filter expressions the call has sent or is about to send
FiltersSent ==
    {calls[i].req.Filter : i \in {j \in 1..Len(calls) : calls[j].op = "listRecords"}}
    \cup (IF pc \in {"scan", "list"} THEN {req.Filter} ELSE {})

ClausesOn(f, field) == {i \in 1..Len(f) : f[i].field = field}

\* C18: a filter expression sent by getRun or listRuns has exactly one type
\* clause (the data types of the kind), one equality clause per label of the
\* selector and, for getRun with an exact name, one name clause; no clause is
\* on the unique id or carries the selector's UID, and a run the scan returns
\* for a selector with a UID has that UID.
C18_NoUIDClause ==
    /\ \A f \in FiltersSent :
          /\ \A i \in 1..Len(f) :
                /\ f[i].field \in {"data_type", "data.metadata.labels", "data.metadata.name"}
                /\ (~IsListCall /\ sel.UID # EmptyStr) =>
                      (sel.UID \notin f[i].values /\ f[i].key # sel.UID)
          /\ \E i \in 1..Len(f) :
                /\ ClausesOn(f, "data_type") = {i}
                /\ f[i].values = {<<t>> : t \in
                      IF kind = "pipelinerun"
                      THEN {"tekton.dev/v1.PipelineRun", "tekton.dev/v1beta1.PipelineRun"}
                      ELSE {"tekton.dev/v1.TaskRun", "tekton.dev/v1beta1.TaskRun"}}
          /\ Cardinality(ClausesOn(f, "data.metadata.labels")) = Cardinality(DOMAIN WantedLabels)
          /\ \A key \in DOMAIN WantedLabels :
                \E i \in ClausesOn(f, "data.metadata.labels") :
                    f[i].key = key /\ f[i].values = {WantedLabels[key]}
          /\ IF ~IsListCall /\ sel.Name # EmptyStr
             THEN \E i \in 1..Len(f) :
                     ClausesOn(f, "data.metadata.name") = {i} /\ f[i].values = {sel.Name}
             ELSE ClausesOn(f, "data.metadata.name") = {}
    /\ (~IsListCall /\ pc = "done" /\ ListCalls >= 1 /\ sel.UID # EmptyStr
            /\ result.detail # <<>>)
          => result.detail[1].Summary.UID = sel.UID

\* a fallback scan for a UID found its run through a filter on type and name
C18_Witness ==
    /\ ~IsListCall /\ pc = "done"
    /\ sel.UID # EmptyStr /\ sel.Name # EmptyStr
    /\ ListCalls >= 1
    /\ Len(calls[2].req.Filter) = 2
    /\ result.detail # <<>>

\* C19: the first remote call of a getRun with a UID is the only getRecord of
\* the call, for "<ns>/results/<uid>/records/<uid>" with the selector's
\* namespace, "default" when that is empty; a detail returned from the record
\* found there carries the record's name as RecordName.
C19_DirectAddress ==
    /\ (sel.UID # EmptyStr /\ Len(calls) >= 1) =>
          /\ calls[1].op = "getRecord"
          /\ calls[1].name =
                (IF sel.Namespace = <<>> THEN <<"d", "e", "f", "a", "u", "l", "t">>
                 ELSE sel.Namespace)
                \o <<"/results/">> \o sel.UID \o <<"/records/">> \o sel.UID
          /\ GetCalls = 1
    /\ sel.UID = EmptyStr => GetCalls = 0
    /\ (pc = "done" /\ DirectOK /\ result.detail # <<>>) =>
          /\ result.detail[1].RecordName = direct[1].rec[1].Name
          /\ result.detail[1].Summary.RecordName = direct[1].rec[1].Name

\* a UID without namespace, found under "default"
C19_Witness ==
    /\ pc = "done" /\ DirectOK
    /\ sel.Namespace = EmptyStr /\ sel.UID = <<"u5">>
    /\ result.detail # <<>>
    /\ result.detail[1].RecordName = DefaultNs \o <<"/results/", "u5", "/records/", "u5">>

\* the records of the pages the call received
Fetched ==
    UNION { {PageOf(calls[i].req).Records[k] :
                k \in 1..Len(PageOf(calls[i].req).Records)} :
            i \in {j \in 1..Len(calls) :
                     /\ calls[j].op = "listRecords"
                     /\ (j < Len(calls) \/ pc # "done"
                           \/ result.err \notin {UnavailableErr, CancelledErr})} }

\* with a malformed label selector the call issues no remote call and
\* returns the parse error
ParseErrorAborts ==
    parseLabelSelector(sel.LabelSelector).err # NoErr =>
        /\ calls = <<>>
        /\ pc = "done" =>
              result = [detail |-> <<>>, summaries |-> <<>>,
                        err |-> parseLabelSelector(sel.LabelSelector).err]

\* C20 as stated: a malformed label selector fails the call before any
\* remote call, and a call that received a page holding a record that does
\* not decode returns an error and neither a run nor a list.
C20_AnyFetchedRecord ==
    /\ ParseErrorAborts
    /\ (pc = "done" /\ \E rec \in Fetched : ~Decodes(EntryOf(rec))) =>
          /\ result.err # NoErr
          /\ result.detail = <<>> /\ result.summaries = <<>>

\* C20 amended: a malformed label selector fails the call before any remote
\* call, and a call that handed a record that does not decode to decodeRun
\* has returned, with the decode error and neither a run nor a list, even
\* when earlier records had matched; records that follow the one at which the
\* loop stopped are never decoded.
C20_DecodedRecord ==
    /\ ParseErrorAborts
    /\ \A i \in 1..Len(store) :
          (~Decodes(store[i]) /\ Record(store[i]).Name \in Met) =>
              /\ pc = "done"
              /\ result.err # NoErr /\ result.err[1] \in AbortHeads
              /\ result.detail = <<>> /\ result.summaries = <<>>

\* a scan that had one match from an earlier page when it met a record that
\* does not decode
C20_Witness ==
    /\ ~IsListCall /\ pc = "done"
    /\ ListCalls >= 2
    /\ Len(matches) = 1
    /\ \E i \in 1..Len(store) :
          ~Decodes(store[i]) /\ Record(store[i]).Name = work[Len(work)]
    /\ result.err # NoErr /\ result.detail = <<>>

----------------------------------------------------------------------------
(* C21: no retries *)

\* the positions of the listRecords calls
ListPositions == {i \in 1..Len(calls) : calls[i].op = "listRecords"}

\* no remote request is repeated: getRecord is called at most once and only
\* as the first remote call, the scan is entered at most once (one request
\* without a continuation token), and no continuation token is requested twice
NoRequestRepeated ==
    /\ GetCalls <= 1
    /\ \A i \in 1..Len(calls) : calls[i].op = "getRecord" => i = 1
    /\ Cardinality({i \in ListPositions : calls[i].req.PageToken = 0}) <= 1
    /\ \A i, j \in ListPositions :
          i # j => calls[i].req.PageToken # calls[j].req.PageToken

\* a remote call made after the context was cancelled fails, and that failure
\* is the call's result and its last remote call
CancelEnds ==
    (cancelAt # -1 /\ Len(calls) > cancelAt) =>
        /\ pc = "done"
        /\ Len(calls) = cancelAt + 1
        /\ result.detail = <<>> /\ result.summaries = <<>>
        /\ result.err = IF calls[Len(calls)].op = "getRecord"
                        THEN <<"get record by UID: ">> \o CancelledErr
                        ELSE CancelledErr

\* a call that holds an error has returned
ErrorIsFinal == result.err # NoErr => pc = "done"

----------------------------------------------------------------------------
(* C22..C26: the tool handlers *)

GetOps == {"GetPipelineRun", "GetTaskRun"}

\* the positions of the Service calls of one operation
CallsOf(ops) == {i \in 1..Len(calls) : calls[i].op \in ops}

\* C22: every get and logs handler passes SelectLast = true to the Service
\* unless the arguments hold selectLast with the boolean value false, and
\* then it passes false; absent (or null) never gives strict mode.
C22_SelectLastDefault ==
    /\ (kind \in GetTools \cup LogsTools /\ pc \notin {"start", "get"}
          /\ ~UnderSpecified(kind, sel)) => CallsOf(GetOps) = {1}
    /\ \A i \in CallsOf(GetOps) :
          calls[i].arg.SelectLast = (sel.SelectLast # "false")

\* a logs request without selectLast reached the Service in lenient mode
C22_Witness ==
    /\ kind = "pipelinerun_logs" /\ sel.SelectLast = "absent"
    /\ pc = "done"
    /\ CallsOf(GetOps) = {1} /\ calls[1].arg.SelectLast = TRUE

\* the namespace the arguments name: none, every namespace, or one
WantedNamespace ==
    LET t == Strip(sel.Namespace) IN
    IF t = <<>>
    THEN (IF sel.DefaultNamespace = <<>> THEN DefaultNs ELSE sel.DefaultNamespace)
    ELSE IF \/ t \in {<<"-">>, <<"*">>}
            \/ Len(t) = 3 /\ t[1] \in {"a", "A"} /\ t[2] \in {"l", "L"} /\ t[3] \in {"l", "L"}
    THEN <<"-">>
    ELSE t

\* C23: the handlers pass the default namespace for an empty or blank
\* namespace, "-" for "-", "all" and "*" in any case, and otherwise the
\* trimmed namespace; the parent the Service searches is "-/results/-" for
\* the former and "<ns>/results/-" for a namespace ns.
C23_NamespaceScope ==
    \A i \in CallsOf(GetOps \cup {"ListPipelineRuns", "ListTaskRuns"}) :
        /\ calls[i].arg.Namespace = WantedNamespace
        /\ parentForNamespace(calls[i].arg.Namespace) =
              IF WantedNamespace = <<"-">> THEN <<"-", "/results/-">>
              ELSE WantedNamespace \o <<"/results/-">>

\* a list request for the namespace "All" searched every namespace
C23_Witness ==
    /\ kind = "taskrun_list" /\ sel.Namespace = <<"A", "l", "l">>
    /\ pc = "done"
    /\ calls[1].op = "ListTaskRuns" /\ calls[1].arg.Namespace = <<"-">>

\* the Get call of a logs tool succeeded and resolved a completed run
ResolvedCompleted ==
    /\ Len(calls) >= 1 /\ calls[1].op \in GetOps
    /\ direct[1].err = NoErr
    /\ direct[1].detail[1].Summary.CompletionTime # 0

\* no Service call for logs without a completed resolved run, and an error
\* result for a run that is not completed
LogsNeedCompletion ==
    /\ \A i \in CallsOf({"FetchLogs"}) : i > 1 /\ ResolvedCompleted
    /\ \A i \in CallsOf({"ListTaskRuns"}) :
          kind = "pipelinerun_logs" => i = 2 /\ ResolvedCompleted
    /\ ( /\ kind \in LogsTools /\ Len(calls) >= 1 /\ direct[1].err = NoErr
         /\ direct[1].detail[1].Summary.CompletionTime = 0 )
       => /\ pc = "done" /\ Len(calls) = 1
          /\ result.IsError

\* C24 as stated: both logs tools fetch no log unless the Get succeeded and
\* the run is completed, return an error result for a run that is not, and
\* call FetchLogs with the record name of the resolved run.
C24_ResolvedRecordName ==
    /\ LogsNeedCompletion
    /\ \A i \in CallsOf({"FetchLogs"}) : calls[i].arg = direct[1].detail[1].RecordName

\* C24 amended: both logs tools fetch no log unless the Get succeeded and the
\* run is completed and return an error result for a run that is not;
\* taskrun_logs then calls FetchLogs once, with the record name of the
\* resolved run, and pipelinerun_logs calls it once per listed TaskRun, with
\* that TaskRun's record name.
C24_LogsAfterCompletion ==
    /\ LogsNeedCompletion
    /\ (kind = "taskrun_logs" /\ pc = "done" /\ ResolvedCompleted) =>
          /\ Len(calls) = 2
          /\ calls[2] = ToolCall("FetchLogs", direct[1].detail[1].RecordName)
    /\ kind = "pipelinerun_logs" =>
          \A i \in CallsOf({"FetchLogs"}) :
              /\ i >= 3 /\ direct[2].err = NoErr
              /\ \E t \in 1..Len(direct[2].summaries) :
                    calls[i].arg = direct[2].summaries[t].RecordName
              /\ \A j \in CallsOf({"FetchLogs"}) : j # i => calls[j].arg # calls[i].arg
    /\ (kind = "pipelinerun_logs" /\ pc = "done" /\ Len(calls) >= 3) =>
          Cardinality(CallsOf({"FetchLogs"})) = Len(direct[2].summaries)

\* pipelinerun_logs fetched the logs of two TaskRuns
C24_Witness ==
    /\ kind = "pipelinerun_logs" /\ pc = "done"
    /\ ResolvedCompleted
    /\ Cardinality(CallsOf({"FetchLogs"})) = 2
    /\ ~result.IsError

\* C25: each get and logs tool accepts a request that names the run by uid
\* alone and passes the uid in the selector, and it rejects a request as
\* under-specified only when name, prefix, uid and labelSelector are all
\* empty.
C25_UIDAloneAccepted ==
    (kind \in GetTools \cup LogsTools /\ pc # "start") =>
        /\ sel.UID # EmptyStr =>
              /\ req # NoReq /\ req.UID = sel.UID
              /\ result # NewToolResultError(UnderSpecifiedText(kind))
        /\ result = NewToolResultError(UnderSpecifiedText(kind)) =>
              /\ sel.Name = EmptyStr /\ sel.Prefix = EmptyStr /\ sel.UID = EmptyStr
              /\ Strip(sel.LabelSelector) = <<>>

\* C26: pipelinerun_logs writes one section for every TaskRun the Service
\* lists for the PipelineRun's UID, the sections of TaskRuns that have a
\* completion time appear in non-decreasing order of it whatever other
\* TaskRuns are listed, and a FetchLogs error is written into its section
\* without stopping the sections that follow.
C26_SectionsInCompletionOrder ==
    (kind = "pipelinerun_logs" /\ pc = "done" /\ Len(calls) >= 3) =>
        /\ calls[2].arg.LabelSelector =
              <<"tekton.dev/pipelineRunUID", "=">> \o direct[1].detail[1].Summary.UID
        /\ Len(work) = Len(direct[2].summaries)
        /\ \A t \in 1..Len(direct[2].summaries) :
              Cardinality({i \in 1..Len(work) :
                              work[i].TaskRun = direct[2].summaries[t].Name}) = 1
        /\ \A i, j \in 1..Len(work) :
              (i < j /\ work[i].Completed # 0 /\ work[j].Completed # 0) =>
                  work[i].Completed <= work[j].Completed
        /\ \A i \in 1..Len(work) :
              direct[i + 2].err # NoErr =>
                  work[i].body = <<"Error fetching logs: ">> \o direct[i + 2].err \o <<"\n">>
        /\ ~result.IsError /\ result.text = work

----------------------------------------------------------------------------
(* C27..C30: getRun *)

\* the names of the records the scan lists after its second match
ListedAfterSecondMatch ==
    LET all == FallbackScanned
        k == CHOOSE i \in 1..Len(all) : Record(all[i]).Name = matches[2].RecordName
    IN {Record(all[j]).Name : j \in (k + 1)..Len(all)}

\* C27: the scan never holds more than two matches; with the second match
\* the call returns, the second match being the last record examined and
\* its page the last one requested; with fewer than two matches the scan
\* goes on while the store returns a continuation token, so that a scan that
\* ended with fewer than two matches and without an abort has examined
\* every listed record.
C27_ScanStopsEarly ==
    /\ Len(matches) <= 2
    /\ Len(matches) = 2 =>
          /\ pc = "done"
          /\ work # <<>> /\ work[Len(work)] = matches[2].RecordName
          /\ ListedAfterSecondMatch \cap Met = {}
          /\ \E k \in 1..Len(PageOf(calls[Len(calls)].req).Records) :
                PageOf(calls[Len(calls)].req).Records[k].Name = matches[2].RecordName
    /\ (pc = "scan" /\ ListCalls >= 1) => Len(matches) <= 1 /\ LastToken # 0
    /\ (pc = "done" /\ ListCalls >= 1 /\ ~Aborted /\ Len(matches) < 2) =>
          /\ LastToken = 0
          /\ \A i \in 1..Len(FallbackScanned) : Record(FallbackScanned[i]).Name \in Met

\* a scan that found its second match on the first page, with a listed
\* record left unexamined
C27_Witness ==
    /\ pc = "done" /\ Len(matches) = 2
    /\ ListCalls = 1 /\ GetCalls = 0
    /\ ListedAfterSecondMatch # {}
    /\ LastToken = 0

\* C28 as stated: every run getRun returns satisfies every non-empty
\* predicate of the selector, on the fast path and on the scan path.
C28_ReturnedFitsAll ==
    (pc = "done" /\ result.detail # <<>>) =>
        \E i \in 1..Len(store) :
            Decodes(store[i]) /\ Returned(store[i]) /\ Fits(store[i])

\* C28 amended: a run returned by the scan path satisfies every non-empty
\* predicate of the selector; a run returned by the fast path is the record
\* stored at the direct address, whatever its labels and its name.
C28_ScanReturnsFitting ==
    (pc = "done" /\ result.detail # <<>>) =>
        IF DirectOK
        THEN \E i \in 1..Len(store) :
                /\ Record(store[i]).Name = DirectRecordName(sel)
                /\ Decodes(store[i]) /\ Returned(store[i])
        ELSE \E i \in 1..Len(FallbackScanned) :
                Fits(FallbackScanned[i]) /\ Returned(FallbackScanned[i])

\* a scan with a prefix returned a run although a listed record that
\* decodes does not have the prefix
C28_Witness ==
    /\ pc = "done" /\ result.detail # <<>> /\ ~DirectOK
    /\ ListCalls >= 1 /\ sel.Prefix # EmptyStr
    /\ \E i \in 1..Len(FallbackScanned) :
          /\ Decodes(FallbackScanned[i])
          /\ ~Fits(FallbackScanned[i])

\* C29: a run returned by getRun is of the requested kind, on the fast path
\* and on the scan path.
C29_KindSafe ==
    (pc = "done" /\ result.detail # <<>>) =>
        \E i \in 1..Len(store) :
            /\ Decodes(store[i]) /\ Returned(store[i])
            /\ \E t \in 1..Len(resourceTypeFilters[kind]) :
                  store[i].dataType = resourceTypeFilters[kind][t]

\* the namespace part of a record name or of a parent
NamespaceOf(name) ==
    LET k == CHOOSE i \in 1..Len(name) :
                 /\ name[i] \in {"/results/", "/results/-"}
                 /\ \A j \in 1..(i - 1) : name[j] \notin {"/results/", "/results/-"}
    IN SubSeq(name, 1, k - 1)

\* C30: for a TaskRun selector with a UID, the fallback scan after a
\* not-found of the direct lookup searches the namespace the direct lookup
\* addressed.
C30_FallbackSameScope ==
    ( /\ kind = resourceKindTaskRun /\ sel.UID # EmptyStr
      /\ direct # <<>> /\ direct[1].err = NotFoundErr )
    => \A i \in ListPositions :
          NamespaceOf(calls[i].req.Parent) = NamespaceOf(calls[1].name)

====
